---- MODULE Spec2Model ----
(***************************************************************************)
(* Term-Mail: the local mail store and delivery router (LocalProvider,     *)
(* LocalEmailManager), the inbox screen and its workers, the accounts      *)
(* (ConfigManager) and the application's start, the IMAP provider's        *)
(* session and the message normalizers, as state machines.                 *)
(*                                                                         *)
(* Text (addresses, subjects, bodies, file names) is a sequence of         *)
(* one-character strings, so that lower(), substring search, the           *)
(* f"{local_part}@{domain}" concatenation and the '@' -> '_at_' file name  *)
(* derivation are computed as the code computes them.  A Python dict       *)
(* (insertion ordered) whose keys are the ids of its values is a sequence  *)
(* of records in insertion order.                                          *)
(***************************************************************************)
EXTENDS Integers, Sequences, FiniteSets, TLC

VARIABLES
    addresses,   \* LocalEmailManager._addresses: the registered addresses, in order
    addresses_file, \* addresses.json in the storage directory
    disk,        \* the storage directory: file name -> mailbox document
    prov,        \* address -> the LocalProvider instance for it
    nextId,      \* the uuid4 source: the next fresh id
    faults,      \* whether open(file, 'w') may fail in this environment
    calls,       \* the number of calls made so far
    scope,       \* which inputs the calls of this run draw from
    last,        \* the last call: operation, arguments, return value
    screen,      \* the InboxScreen: its fields, widgets and workers
    imap,        \* the IMAPProvider, its session and the server's mailboxes
    norm,        \* a backend message and the Email a normalizer made of it
    config       \* the ConfigManager: the accounts it stores

vars == <<addresses, addresses_file, disk, prov, nextId, faults, calls, scope, last,
          screen, imap, norm, config>>

\* the local store
store == <<addresses, addresses_file, disk, prov, nextId, faults, scope, last>>

----------------------------------------------------------------------------
(* Bounds *)

\* uuid4 values that may be drawn in one run
MaxIds == 3
\* calls made in one run
MaxCalls == 8
\* datetime.now() ranges over 1..MaxTime (the wall clock may repeat or step back)
MaxTime == 2
\* workers an InboxScreen starts in one run
MaxWorkers == 4
\* tokens (characters and tags) of an HTML body
MaxHtml == 2
\* accounts a ConfigManager stores at a time
MaxAccounts == 3

----------------------------------------------------------------------------
(* Text *)

UpperCase ==
    <<"A","B","C","D","E","F","G","H","I","J","K","L","M",
      "N","O","P","Q","R","S","T","U","V","W","X","Y","Z">>

LowerCase ==
    <<"a","b","c","d","e","f","g","h","i","j","k","l","m",
      "n","o","p","q","r","s","t","u","v","w","x","y","z">>

\* the lower-case letter of every upper-case letter
LowerOf ==
    [c \in {UpperCase[i] : i \in DOMAIN UpperCase} |->
        LowerCase[CHOOSE i \in DOMAIN UpperCase : UpperCase[i] = c]]

LowerChar(c) == IF c \in DOMAIN LowerOf THEN LowerOf[c] ELSE c

\* str.lower()
lower(s) == [i \in 1..Len(s) |-> LowerChar(s[i])]

\* q in s
Contains(q, s) ==
    \E i \in 0..(Len(s) - Len(q)) : SubSeq(s, i + 1, i + Len(q)) = q

RECURSIVE ReplaceAt(_)
\* s.replace('@', '_at_')
ReplaceAt(s) ==
    IF s = <<>> THEN <<>>
    ELSE (IF Head(s) = "@" THEN <<"_","a","t","_">> ELSE <<Head(s)>>)
         \o ReplaceAt(Tail(s))

\* storage_dir / f"{email_address.replace('@', '_at_')}.json"
FileName(addr) == ReplaceAt(addr) \o <<".","j","s","o","n">>

\* f"{local_part}@{domain}"
MkAddress(local_part, domain) == local_part \o <<"@">> \o domain

----------------------------------------------------------------------------
(* Inputs *)

AliceLP == <<"a","l","i","c","e">>
BobLP == <<"b","o","b">>
Local == <<"l","o","c","a","l">>

Alice == MkAddress(AliceLP, Local)
Bob == MkAddress(BobLP, Local)
\* an address outside the store
Ext == <<"c","@","x",".","i","o">>

LocalParts == {AliceLP, BobLP, <<>>}
LocalAddrs == {Alice, Bob}
Addrs == {Alice, Bob, Ext}
Files == {FileName(a) : a \in Addrs}

Hi == <<"H","i">>
Hello == <<"H","e","l","l","o">>
News == <<"N","e","w","s">>
HtmlHi == <<"<","b",">","H","i","<","/","b",">">>

\* (subject, body, html_body) of a send; html_body <<>> is None
HiHello == [subject |-> Hi, body |-> Hello, html |-> <<>>]
HtmlOnly == [subject |-> News, body |-> <<>>, html |-> HtmlHi]
Contents == {HiHello, HtmlOnly}

\* the `to` lists of a send
ToLists == { <<Bob>>, <<Alice>>, <<Ext>>, <<Alice, Bob>>, <<Alice, Ext>> }

\* the accounts: whether the account of an address carries smtp_server,
\* smtp_username and smtp_password (create_local_email.py lines 109-114)
SmtpConfigured(a) == a = Bob

Times == 1..MaxTime
Ids == 1..MaxIds

----------------------------------------------------------------------------
(* Records: the Email model and its stored (JSON) form *)

\* datetime.isoformat() / datetime.fromisoformat(): a stored date is a string
isoformat(d) == <<"iso", d>>
fromisoformat(s) == s[2]

\* Email(...): the dataclass with its defaults
Email(id, subject, from_address, to_addresses, cc_addresses, bcc_addresses, date, body_text, body_html, is_read, is_starred, folder) ==
    [ id |-> id, subject |-> subject, from_address |-> from_address,
      to_addresses |-> to_addresses, cc_addresses |-> cc_addresses,
      bcc_addresses |-> bcc_addresses, date |-> date,
      body_text |-> body_text, body_html |-> body_html, attachments |-> <<>>,
      is_read |-> is_read, is_starred |-> is_starred, folder |-> folder ]

\* LocalProvider._email_to_dict
email_to_dict(e) ==
    [ id |-> e.id, subject |-> e.subject, from_address |-> e.from_address,
      to_addresses |-> e.to_addresses, cc_addresses |-> e.cc_addresses,
      bcc_addresses |-> e.bcc_addresses, date |-> isoformat(e.date),
      body_text |-> e.body_text, body_html |-> e.body_html,
      attachments |-> <<>>,
      is_read |-> e.is_read, is_starred |-> e.is_starred,
      folder |-> IF e.folder = "" THEN "INBOX" ELSE e.folder ]

\* LocalProvider._dict_to_email
dict_to_email(d) ==
    Email(d.id, d.subject, d.from_address, d.to_addresses, d.cc_addresses,
          d.bcc_addresses, fromisoformat(d.date), d.body_text, d.body_html,
          d.is_read, d.is_starred, d.folder)

\* dict[key] = value on an insertion-ordered dict keyed by id
DictPut(emails, rec) ==
    IF \E i \in DOMAIN emails : emails[i].id = rec.id
    THEN [i \in DOMAIN emails |-> IF emails[i].id = rec.id THEN rec ELSE emails[i]]
    ELSE Append(emails, rec)

\* key in dict
HasId(emails, id) == \E i \in DOMAIN emails : emails[i].id = id

\* the ids of a dict
IdsOf(emails) == {emails[i].id : i \in DOMAIN emails}

\* dict[key]
Lookup(emails, id) == emails[CHOOSE i \in DOMAIN emails : emails[i].id = id]

\* no file on disk
NoFile == [exists |-> FALSE, emails |-> <<>>]

\* no LocalProvider constructed
NoProvider ==
    [live |-> FALSE, connected |-> FALSE, emails |-> <<>>,
     smtp_cfg |-> FALSE, smtp |-> FALSE]

\* a routing test that asks the address list instead of the directory
is_registered_address(d, addr) ==
    \E i \in DOMAIN addresses : addresses[i].email_address = addr

\* LocalProvider._is_local_address, on directory d
is_local_address(d, addr) == d[FileName(addr)].exists

\* LocalProvider._load_emails: the document of addr in directory d
load_emails(d, addr) ==
    IF d[FileName(addr)].exists THEN d[FileName(addr)].emails ELSE <<>>

\* a save that leaves the document as it is
save_emails_skipped(d, addr, emails, ok) == d

\* LocalProvider._save_emails: the whole document is rewritten; an IOError of
\* open() is caught and only printed
save_emails(d, addr, emails, ok) ==
    IF ok THEN [d EXCEPT ![FileName(addr)] = [exists |-> TRUE, emails |-> emails]]
    ELSE d

\* s[lo:hi] for lo, hi >= 0
PySlice(s, lo, hi) ==
    LET h == IF hi < Len(s) THEN hi ELSE Len(s)
    IN  IF lo >= h THEN <<>> ELSE SubSeq(s, lo + 1, h)

RECURSIVE SortByDateDesc(_)
\* list.sort(key=lambda e: e.date, reverse=True): stable
SortByDateDesc(s) ==
    IF s = <<>> THEN <<>>
    ELSE LET front == SortByDateDesc(SubSeq(s, 1, Len(s) - 1))
             x == s[Len(s)]
             k == Cardinality({i \in DOMAIN front : front[i].date >= x.date})
         IN  SubSeq(front, 1, k) \o <<x>> \o SubSeq(front, k + 1, Len(front))

\* [f(x) for x in s]
MapEmails(s) == [i \in DOMAIN s |-> dict_to_email(s[i])]

----------------------------------------------------------------------------
(* Read operations of a LocalProvider instance p *)

\* fetch_emails returning emails[offset:limit]
fetch_emails_slice_to_limit(p, folder, limit, offset) ==
    IF ~p.connected THEN <<>>
    ELSE LET emails == MapEmails(SelectSeq(p.emails, LAMBDA d : d.folder = folder))
         IN  PySlice(SortByDateDesc(emails), offset, limit)

\* LocalProvider.fetch_emails
fetch_emails(p, folder, limit, offset) ==
    IF ~p.connected THEN <<>>
    ELSE LET emails == MapEmails(SelectSeq(p.emails, LAMBDA d : d.folder = folder))
         IN  PySlice(SortByDateDesc(emails), offset, offset + limit)

\* LocalProvider.get_email: <<>> is None
get_email(p, email_id) ==
    IF ~p.connected THEN <<>>
    ELSE IF HasId(p.emails, email_id)
         THEN <<dict_to_email(Lookup(p.emails, email_id))>>
         ELSE <<>>

\* the test without .lower() on the stored fields
search_match_case_sensitive(d, query_lower) ==
    \/ Contains(query_lower, d.subject)
    \/ Contains(query_lower, d.body_text)
    \/ Contains(query_lower, d.from_address)

\* the test of the loop body of search_emails
search_match(d, query_lower) ==
    \/ Contains(query_lower, lower(d.subject))
    \/ Contains(query_lower, lower(d.body_text))
    \/ Contains(query_lower, lower(d.from_address))

\* LocalProvider.search_emails; folder "" is None
search_emails(p, query, folder, limit) ==
    IF ~p.connected THEN <<>>
    ELSE LET query_lower == lower(query)
             results == MapEmails(SelectSeq(p.emails,
                 LAMBDA d : /\ ~(folder # "" /\ d.folder # folder)
                            /\ search_match(d, query_lower)))
         IN  PySlice(SortByDateDesc(results), 0, limit)

RECURSIVE count_folders_read_as_unread(_, _)
\* the counting loop with the test on is_read inverted
count_folders_read_as_unread(emails, folders) ==
    IF emails = <<>> THEN folders
    ELSE LET d == Head(emails)
             f1 == IF \E i \in DOMAIN folders : folders[i].name = d.folder
                   THEN folders
                   ELSE Append(folders, [name |-> d.folder, total |-> 0, unread |-> 0])
             f2 == [i \in DOMAIN f1 |->
                      IF f1[i].name = d.folder
                      THEN [f1[i] EXCEPT !.total = @ + 1,
                                         !.unread = IF d.is_read THEN @ + 1 ELSE @]
                      ELSE f1[i]]
         IN  count_folders_read_as_unread(Tail(emails), f2)

RECURSIVE count_folders(_, _)
\* the counting loop of get_folders: folders is the dict name -> {total, unread}
count_folders(emails, folders) ==
    IF emails = <<>> THEN folders
    ELSE LET d == Head(emails)
             f1 == IF \E i \in DOMAIN folders : folders[i].name = d.folder
                   THEN folders
                   ELSE Append(folders, [name |-> d.folder, total |-> 0, unread |-> 0])
             f2 == [i \in DOMAIN f1 |->
                      IF f1[i].name = d.folder
                      THEN [f1[i] EXCEPT !.total = @ + 1,
                                         !.unread = IF ~d.is_read THEN @ + 1 ELSE @]
                      ELSE f1[i]]
         IN  count_folders(Tail(emails), f2)

default_folders == <<"INBOX", "Sent", "Drafts", "Trash">>

\* Folder(...)
Folder(name, unread, total) ==
    [name |-> name, display_name |-> name, id |-> name,
     unread_count |-> unread, total_count |-> total]

\* the folders found, as get_folders would select them without its test
\* `folder_name not in default_folders`
other_folders_unfiltered(folders) == folders

\* the folders found that are not default folders (lines 338-339)
other_folders(folders) ==
    SelectSeq(folders,
        LAMBDA f : \A i \in DOMAIN default_folders : default_folders[i] # f.name)

\* LocalProvider.get_folders
get_folders(p) ==
    LET folders == count_folders(p.emails, <<>>)
        get(name, key) ==
            IF \E i \in DOMAIN folders : folders[i].name = name
            THEN LET f == folders[CHOOSE i \in DOMAIN folders : folders[i].name = name]
                 IN  IF key = "unread" THEN f.unread ELSE f.total
            ELSE 0
        defaults == [i \in DOMAIN default_folders |->
                        Folder(default_folders[i],
                               get(default_folders[i], "unread"),
                               get(default_folders[i], "total"))]
        others == other_folders(folders)
    IN  defaults \o [i \in DOMAIN others |->
                        Folder(others[i].name, others[i].unread, others[i].total)]

----------------------------------------------------------------------------
(* The calls *)

\* the record of a call: operation, instance, return value
Call(op, who, ret) ==
    [op |-> op, who |-> who, ret |-> ret, id |-> 0, to |-> <<>>, cc |-> <<>>,
     local |-> <<>>, relay |-> "none", relayed |-> <<>>, saved |-> TRUE]

\* the outcomes of open(file, 'w')
WriteOutcomes == IF faults THEN {TRUE, FALSE} ELSE {TRUE}

\* LocalEmailManager.email_address_exists
email_address_exists(email_address) ==
    \E i \in DOMAIN addresses : addresses[i].email_address = email_address

\* addresses.json holding the list
AddressesFile(list) == [exists |-> TRUE, addresses |-> list]
NoAddressesFile == [exists |-> FALSE, addresses |-> <<>>]

\* the outcomes of open(addresses_file, 'w')
AddressWriteOutcomes == IF scope = "addresses" THEN {TRUE, FALSE} ELSE {TRUE}

\* a format check that lets every address through
invalid_format_never(email_address, local_part) == FALSE

\* "@" not in email_address or len(local_part) == 0
invalid_format(email_address, local_part) ==
    ~Contains(<<"@">>, email_address) \/ Len(local_part) = 0

\* LocalEmailManager.create_email_address(local_part, domain); ok is whether
\* _save_addresses can write the file (it raises RuntimeError if not)
CreateAddress(local_part, domain, ok) ==
    LET email_address == MkAddress(local_part, domain)
        address_info == [email_address |-> email_address,
                         local_part |-> local_part, domain |-> domain]
    IN  /\ IF email_address_exists(email_address)
           THEN /\ last' = Call("create_email_address", email_address, "ValueError")
                /\ UNCHANGED <<addresses, addresses_file>>
           ELSE IF invalid_format(email_address, local_part)
           THEN /\ last' = Call("create_email_address", email_address, "ValueError")
                /\ UNCHANGED <<addresses, addresses_file>>
           ELSE /\ addresses' = Append(addresses, address_info)
                /\ IF ok
                   THEN /\ addresses_file' = AddressesFile(addresses')
                        /\ last' = Call("create_email_address", email_address, "account")
                   ELSE /\ UNCHANGED addresses_file
                        /\ last' = Call("create_email_address", email_address, "RuntimeError")
        /\ UNCHANGED <<disk, prov, nextId>>

\* LocalEmailManager.delete_email_address: the address leaves the list and its
\* mailbox document is unlinked; instances constructed for it stay as they
\* are.  When _save_addresses raises, the list is filtered and nothing else is.
DeleteAddress(email_address, ok) ==
    LET kept == SelectSeq(addresses,
                    LAMBDA addr : addr.email_address # email_address)
        email_file == FileName(email_address)
    IN  /\ IF Len(kept) < Len(addresses)
           THEN /\ addresses' = kept
                /\ IF ok
                   THEN /\ addresses_file' = AddressesFile(kept)
                        /\ disk' = [disk EXCEPT ![email_file] = NoFile]
                        /\ last' = Call("delete_email_address", email_address, "true")
                   ELSE /\ UNCHANGED <<addresses_file, disk>>
                        /\ last' = Call("delete_email_address", email_address, "RuntimeError")
           ELSE /\ last' = Call("delete_email_address", email_address, "false")
                /\ UNCHANGED <<addresses, addresses_file, disk>>
        /\ UNCHANGED <<prov, nextId>>

\* LocalProvider.__init__ for a registered address (get_provider_for_address,
\* or the account that action_create stored)
NewProvider(a) ==
    /\ email_address_exists(a)
    /\ prov' = [prov EXCEPT ![a] =
                  [live |-> TRUE, connected |-> FALSE,
                   emails |-> load_emails(disk, a),
                   smtp_cfg |-> SmtpConfigured(a), smtp |-> FALSE]]
    /\ last' = Call("init", a, "none")
    /\ UNCHANGED <<addresses, addresses_file, disk, nextId>>

\* LocalProvider.connect
Connect(a) ==
    /\ prov[a].live
    /\ prov' = [prov EXCEPT ![a].connected = TRUE]
    /\ last' = Call("connect", a, "true")
    /\ UNCHANGED <<addresses, addresses_file, disk, nextId>>

\* LocalProvider.disconnect
Disconnect(a, ok) ==
    /\ prov[a].live
    /\ disk' = save_emails(disk, a, prov[a].emails, ok)
    /\ prov' = [prov EXCEPT ![a].smtp = FALSE, ![a].connected = FALSE]
    /\ last' = [Call("disconnect", a, "none") EXCEPT !.saved = ok]
    /\ UNCHANGED <<addresses, addresses_file, nextId>>

\* self._emails[email_id]["is_read"] = read
set_is_read(emails, email_id, read) ==
    [i \in DOMAIN emails |->
        IF emails[i].id = email_id THEN [emails[i] EXCEPT !.is_read = read]
        ELSE emails[i]]

\* LocalProvider.mark_read
MarkRead(a, email_id, read, ok) ==
    LET p == prov[a]
    IN  /\ p.live
        /\ IF p.connected /\ HasId(p.emails, email_id)
           THEN LET emails == set_is_read(p.emails, email_id, read)
                IN  /\ prov' = [prov EXCEPT ![a].emails = emails]
                    /\ disk' = save_emails(disk, a, emails, ok)
                    /\ last' = [Call("mark_read", a, "true")
                                  EXCEPT !.id = email_id, !.saved = ok]
           ELSE /\ last' = [Call("mark_read", a, "false") EXCEPT !.id = email_id]
                /\ UNCHANGED <<prov, disk>>
        /\ UNCHANGED <<addresses, addresses_file, nextId>>

\* a destructive delete: del self._emails[email_id]
remove_email(emails, email_id) ==
    SelectSeq(emails, LAMBDA d : d.id # email_id)

\* self._emails[email_id]["folder"] = "Trash"
move_to_trash(emails, email_id) ==
    [i \in DOMAIN emails |->
        IF emails[i].id = email_id THEN [emails[i] EXCEPT !.folder = "Trash"]
        ELSE emails[i]]

\* LocalProvider.delete_email
DeleteEmail(a, email_id, ok) ==
    LET p == prov[a]
    IN  /\ p.live
        /\ IF p.connected /\ HasId(p.emails, email_id)
           THEN LET emails == move_to_trash(p.emails, email_id)
                IN  /\ prov' = [prov EXCEPT ![a].emails = emails]
                    /\ disk' = save_emails(disk, a, emails, ok)
                    /\ last' = [Call("delete_email", a, "true")
                                  EXCEPT !.id = email_id, !.saved = ok]
           ELSE /\ last' = [Call("delete_email", a, "false") EXCEPT !.id = email_id]
                /\ UNCHANGED <<prov, disk>>
        /\ UNCHANGED <<addresses, addresses_file, nextId>>

\* LocalProvider.receive_email(email_obj), for an Email whose id is one the
\* instance holds or the next uuid4
ReceiveEmail(a, email_obj, ok) ==
    LET p == prov[a]
        email_dict == [email_to_dict(email_obj) EXCEPT !.folder = "INBOX"]
        emails == DictPut(p.emails, email_dict)
    IN  /\ p.live
        /\ email_obj.id <= MaxIds
        /\ IF ~p.connected
           THEN /\ last' = [Call("receive_email", a, "none") EXCEPT !.id = email_obj.id]
                /\ UNCHANGED <<prov, disk, nextId>>
           ELSE /\ prov' = [prov EXCEPT ![a].emails = emails]
                /\ disk' = save_emails(disk, a, emails, ok)
                /\ nextId' = IF email_obj.id = nextId THEN nextId + 1 ELSE nextId
                /\ last' = [Call("receive_email", a, "none")
                              EXCEPT !.id = email_obj.id, !.saved = ok]
        /\ UNCHANGED <<addresses, addresses_file>>

RECURSIVE deliver(_, _, _, _, _)
\* the delivery loop of send_email (lines 285-303) over the local recipients:
\* sent is the stored form of the message, id the next uuid4, fail_at the
\* position of the recipient whose open(local_file, 'w') raises (0: none).
\* Yields the directory, the next uuid4, the clones written and whether the
\* loop ended without an exception.
deliver(d, recipients, sent, id, fail_at) ==
    IF recipients = <<>>
    THEN [disk |-> d, next |-> id, done |-> <<>>, ok |-> TRUE]
    ELSE LET to_addr == Head(recipients)
             local_file == FileName(to_addr)
         IN  IF ~d[local_file].exists
             THEN deliver(d, Tail(recipients), sent, id, fail_at)
             ELSE LET recipient_email == [sent EXCEPT !.id = id, !.folder = "INBOX"]
                      recipient_emails == DictPut(d[local_file].emails, recipient_email)
                  IN  IF fail_at = 1
                      THEN [disk |-> d, next |-> id + 1, done |-> <<>>, ok |-> FALSE]
                      ELSE LET rest == deliver(
                                   [d EXCEPT ![local_file].emails = recipient_emails],
                                   Tail(recipients), sent, id + 1,
                                   IF fail_at = 0 THEN 0 ELSE fail_at - 1)
                           IN  [rest EXCEPT !.done =
                                   <<[addr |-> to_addr, id |-> id]>> \o @]

\* the outcomes of the relay submission (lines 230-279) of instance p:
\* SMTP() refuses, login or send_message raises, or the message is submitted
RelayOutcomes(p, attempted) ==
    IF ~attempted THEN {"none"}
    ELSE {"ok", "fail_send"} \cup (IF p.smtp THEN {} ELSE {"fail_connect"})

\* the uuid4 values a send may draw besides its own id: one per local
\* recipient; a run other than a "routing" run reserves one per recipient
IdsReserved(to_addresses, local_recipients) ==
    IF scope = "routing" THEN Len(local_recipients) ELSE Len(to_addresses)

\* a partition that runs over the cc addresses too
to_and_cc(to_addresses, cc_addresses) == to_addresses \o cc_addresses

\* the addresses the partition runs over: "for to_addr in to_addresses"
partitioned(to_addresses, cc_addresses) == to_addresses

\* LocalProvider.send_email(to_addresses, subject, body, html_body, cc_addresses)
\* at time now
SendEmail(a, to_addresses, content, cc_addresses, now, relay, fail_at, ok) ==
    LET p == prov[a]
        email_id == nextId
        email_obj == Email(email_id, content.subject, a, to_addresses,
                           cc_addresses, <<>>, now, content.body, content.html,
                           FALSE, FALSE, "Sent")
        local_recipients == SelectSeq(partitioned(to_addresses, cc_addresses),
                                LAMBDA addr : is_local_address(disk, addr))
        external_recipients == SelectSeq(partitioned(to_addresses, cc_addresses),
                                LAMBDA addr : ~is_local_address(disk, addr))
        attempted == external_recipients # <<>> /\ p.smtp_cfg
        sent == email_to_dict(email_obj)
        emails == DictPut(p.emails, sent)
        res == deliver(disk, local_recipients, sent, email_id + 1, fail_at)
        call == [Call("send_email", a, "false") EXCEPT !.to = to_addresses,
                                                       !.cc = cc_addresses]
    IN  /\ p.live
        /\ IF ~p.connected
           THEN /\ last' = call
                /\ UNCHANGED <<prov, disk, nextId>>
           ELSE /\ nextId + IdsReserved(to_addresses, local_recipients) <= MaxIds
                /\ relay \in RelayOutcomes(p, attempted)
                /\ fail_at <= Len(local_recipients)
                /\ prov' = [prov EXCEPT
                              ![a].emails = emails,
                              ![a].smtp = IF relay \in {"ok", "fail_send"}
                                          THEN TRUE ELSE @]
                /\ nextId' = res.next
                /\ disk' = IF res.ok THEN save_emails(res.disk, a, emails, ok)
                           ELSE res.disk
                /\ last' = [call EXCEPT
                              !.ret = IF res.ok THEN "true" ELSE "false",
                              !.id = email_id,
                              !.local = local_recipients,
                              !.relay = relay,
                              !.relayed = IF relay = "ok"
                                          THEN external_recipients \o cc_addresses
                                          ELSE <<>>,
                              !.saved = res.ok /\ ok]
        /\ UNCHANGED <<addresses, addresses_file>>

----------------------------------------------------------------------------
(* The inbox screen *)

\* no InboxScreen constructed
NoScreen == [mounted |-> FALSE]

\* InboxScreen.__init__ and compose: the fields, the empty widgets, no worker
NewScreen ==
    [mounted |-> FALSE, current_folder |-> "INBOX", current_email |-> <<>>,
     messages |-> <<>>, preview |-> <<>>, folders |-> <<>>,
     workers |-> <<>>, writer |-> 0, provider |-> <<>>, marked |-> <<>>]

\* the address of the screen's provider
ScreenAccount == Alice

\* a ConfigManager that stores no account: _accounts, accounts.json (<<>>
\* while the file does not exist), and its last call
NoConfig ==
    [accounts |-> <<>>, accounts_file |-> <<>>,
     call |-> [op |-> "none", id |-> <<>>, ret |-> "none"]]

\* self.provider of the screen: the instance it was constructed with, which is
\* the application's provider (<<>>) until the application replaces its own
screen_provider ==
    IF screen.provider = <<>> THEN prov[ScreenAccount] ELSE screen.provider[1]

\* the folders a FolderSelected event may carry
ScreenFolders == {"INBOX", "Sent", "Archive"}

\* a worker of the screen: its method, its folder argument ("" is None),
\* whether its task waits to run, waits in its await, has returned or was
\* cancelled, how it found the provider it called ("connected",
\* "unconnected", or "" before the call), and the query or the message id it
\* passes to the provider
Worker(kind, folder) ==
    [kind |-> kind, folder |-> folder, state |-> "pending", found |-> "",
     arg |-> <<>>]

\* the workers whose provider call writes to the mailbox
Writers == {"action_delete", "action_mark_unread"}

\* workers that are all left running when another one starts
keep_group(workers) == workers

\* @work(exclusive=True): starting a worker cancels the workers of the node
\* that have not returned
cancel_group(workers) ==
    [i \in DOMAIN workers |->
        IF workers[i].state \in {"pending", "awaiting"}
        THEN [workers[i] EXCEPT !.state = "cancelled"]
        ELSE workers[i]]

\* a worker is started by calling a @work(exclusive=True) method
run_worker(workers, kind, folder) ==
    Append(cancel_group(workers), Worker(kind, folder))

\* a step of the screen; the store stays what it is
ScreenStep == UNCHANGED <<store, calls, imap, norm, config>>

\* InboxScreen.on_mount: load_folders(), then load_messages()
Mount ==
    /\ screen # NoScreen
    /\ ~screen.mounted
    /\ screen' = [screen EXCEPT
                    !.mounted = TRUE,
                    !.workers = run_worker(run_worker(@, "load_folders", ""),
                                           "load_messages", "")]
    /\ ScreenStep

\* InboxScreen.on_folder_list_folder_selected
FolderSelected(folder) ==
    /\ screen # NoScreen
    /\ screen.mounted
    /\ Len(screen.workers) < MaxWorkers
    /\ screen' = [screen EXCEPT
                    !.workers = run_worker(@, "load_messages", folder)]
    /\ ScreenStep

\* the task of worker i runs up to its await: load_messages sets
\* current_folder (lines 94-98), load_folders and search_emails the status
\* message; search_emails passes current_folder, action_delete and
\* action_mark_unread return at once without a current_email (lines 178, 187)
\* and pass its id otherwise
WorkerStart(i) ==
    /\ screen # NoScreen
    /\ i \in DOMAIN screen.workers
    /\ screen.workers[i].state = "pending"
    /\ LET w == screen.workers[i]
           folder == IF w.folder # "" THEN w.folder ELSE screen.current_folder
       IN  screen' =
             CASE w.kind = "load_messages" ->
                    [screen EXCEPT !.current_folder = folder,
                                   !.workers[i].folder = folder,
                                   !.workers[i].state = "awaiting"]
               [] w.kind = "search_emails" ->
                    [screen EXCEPT !.workers[i].folder = screen.current_folder,
                                   !.workers[i].state = "awaiting"]
               [] w.kind \in Writers ->
                    IF screen.current_email = <<>>
                    THEN [screen EXCEPT !.workers[i].state = "done"]
                    ELSE [screen EXCEPT
                            !.workers[i].arg = <<screen.current_email[1].id>>,
                            !.workers[i].state = "awaiting"]
               [] OTHER -> [screen EXCEPT !.workers[i].state = "awaiting"]
    /\ ScreenStep

\* the await of worker i returns and the task runs to its end: load_messages
\* fills the message list, the preview and current_email (lines 100-115),
\* search_emails does the same with the results (lines 141-152),
\* load_folders fills the folder list (lines 84-87)
WorkerComplete(i) ==
    /\ screen # NoScreen
    /\ i \in DOMAIN screen.workers
    /\ screen.workers[i].state = "awaiting"
    /\ screen.workers[i].kind \notin Writers
    /\ LET w == screen.workers[i]
           messages == IF w.kind = "search_emails"
                       THEN search_emails(screen_provider, w.arg[1], w.folder, 50)
                       ELSE fetch_emails(screen_provider, w.folder, 50, 0)
           first == IF messages # <<>> THEN <<messages[1]>> ELSE <<>>
           found == IF screen_provider.connected THEN "connected" ELSE "unconnected"
       IN  screen' = IF w.kind \in {"load_messages", "search_emails"}
                     THEN [screen EXCEPT !.messages = messages,
                                         !.preview = first,
                                         !.current_email = first,
                                         !.writer = i,
                                         !.workers[i].state = "done",
                                         !.workers[i].found = found]
                     ELSE [screen EXCEPT !.folders = get_folders(screen_provider),
                                         !.workers[i].state = "done",
                                         !.workers[i].found = found]
    /\ ScreenStep

\* the Email object current_email is marked unread: it is the object the
\* message list holds
set_unread(messages, current_email) ==
    [k \in DOMAIN messages |->
        IF current_email # <<>> /\ messages[k].id = current_email[1].id
        THEN [messages[k] EXCEPT !.is_read = FALSE]
        ELSE messages[k]]

\* the await of worker i of action_delete or action_mark_unread returns and
\* the task runs to its end; the provider is the application's.
\* action_delete (lines 179-182): on success load_messages() is started,
\* which cancels the unfinished workers, and current_email is None.
\* action_mark_unread (lines 188-192): on success current_email.is_read is
\* False, which raises if current_email is None by now
WorkerWrites(i, ok) ==
    /\ screen # NoScreen
    /\ screen.provider = <<>>
    /\ i \in DOMAIN screen.workers
    /\ screen.workers[i].state = "awaiting"
    /\ screen.workers[i].kind \in Writers
    /\ LET w == screen.workers[i]
           found == IF screen_provider.connected THEN "connected" ELSE "unconnected"
           ended == [screen EXCEPT !.workers[i].state = "done",
                                   !.workers[i].found = found]
       IN  IF w.kind = "action_delete"
           THEN /\ DeleteEmail(ScreenAccount, w.arg[1], ok)
                /\ screen' = IF last'.ret = "true"
                             THEN [ended EXCEPT
                                     !.workers = run_worker(@, "load_messages", ""),
                                     !.current_email = <<>>]
                             ELSE ended
           ELSE /\ MarkRead(ScreenAccount, w.arg[1], FALSE, ok)
                /\ screen' = IF last'.ret = "true" /\ screen.current_email # <<>>
                             THEN [ended EXCEPT
                                     !.current_email[1].is_read = FALSE,
                                     !.messages = set_unread(@, screen.current_email)]
                             ELSE ended
    /\ UNCHANGED <<faults, scope, calls, imap, norm, config>>

\* InboxScreen.on_message_list_message_selected, for the k-th list entry
MessageSelected(k) ==
    /\ screen # NoScreen
    /\ screen.mounted
    /\ k \in DOMAIN screen.messages
    /\ screen.current_email # <<screen.messages[k]>>
    /\ screen' = [screen EXCEPT !.current_email = <<screen.messages[k]>>,
                                !.preview = <<screen.messages[k]>>]
    /\ ScreenStep

\* InboxScreen.on_search_bar_search_submitted
SearchSubmitted(query) ==
    /\ screen # NoScreen
    /\ screen.mounted
    /\ Len(screen.workers) < MaxWorkers
    /\ screen' = [screen EXCEPT
                    !.workers = Append(cancel_group(@),
                                       [Worker("search_emails", "")
                                          EXCEPT !.arg = <<query>>])]
    /\ ScreenStep

\* the key bound to action_delete: a worker is started, which starts
\* load_messages when it succeeds
ActionDelete ==
    /\ screen # NoScreen
    /\ screen.mounted
    /\ Len(screen.workers) + 2 <= MaxWorkers
    /\ screen' = [screen EXCEPT !.workers = run_worker(@, "action_delete", ""),
                                !.marked = <<>>]
    /\ ScreenStep

\* the key bound to action_mark_unread
ActionMarkUnread ==
    /\ screen # NoScreen
    /\ screen.mounted
    /\ Len(screen.workers) < MaxWorkers
    /\ screen' = [screen EXCEPT !.workers = run_worker(@, "action_mark_unread", ""),
                                !.marked = <<>>]
    /\ ScreenStep

\* InboxScreen.action_mark_read with a current_email: action_mark_unread() is
\* called, and called once more if current_email.is_read; marked is the id
\* of the message the action was invoked on
ActionMarkRead ==
    /\ screen # NoScreen
    /\ screen.mounted
    /\ screen.current_email # <<>>
    /\ Len(screen.workers) + 2 <= MaxWorkers
    /\ LET once == run_worker(screen.workers, "action_mark_unread", "")
       IN  screen' = [screen EXCEPT
                        !.workers = IF screen.current_email[1].is_read
                                    THEN run_worker(once, "action_mark_unread", "")
                                    ELSE once,
                        !.marked = <<screen.current_email[1].id>>]
    /\ ScreenStep

\* the screen with its key bindings, the search bar and the message list
NextInbox ==
    \/ Mount
    \/ \E k \in 1..2 : MessageSelected(k)
    \/ SearchSubmitted(Hi)
    \/ ActionDelete
    \/ ActionMarkUnread
    \/ ActionMarkRead
    \/ \E i \in 1..MaxWorkers : WorkerStart(i)
    \/ \E i \in 1..MaxWorkers : WorkerComplete(i)
    \/ \E i \in 1..MaxWorkers, ok \in WriteOutcomes : WorkerWrites(i, ok)

NextScreen ==
    \/ Mount
    \/ \E folder \in ScreenFolders : FolderSelected(folder)
    \/ \E i \in 1..MaxWorkers : WorkerStart(i)
    \/ \E i \in 1..MaxWorkers : WorkerComplete(i)

----------------------------------------------------------------------------
(* The accounts and the application *)

\* f"account_{n}"
AccountId(n) == <<"account_", n>>

\* the account dictionaries handed to add_account: no "id" key; smtp is
\* whether smtp_server, smtp_username and smtp_password are set
Account(provider, email) ==
    [id |-> <<>>, provider |-> provider, email_address |-> email, smtp |-> FALSE]
NewAccounts == {Account("local", Alice), Account("local", Bob), Account("imap", Ext)}

\* the call a ConfigManager method records
ConfigCall(op, id, ret) == [op |-> op, id |-> id, ret |-> ret]

\* account.get("id") or f"account_{len(self._accounts) + 1}"
account_id(c) == AccountId(Len(c.accounts) + 1)

\* ConfigManager.add_account, of a ConfigManager c
add_account(c, account) ==
    LET accounts == Append(c.accounts, [account EXCEPT !.id = account_id(c)])
    IN  [accounts |-> accounts, accounts_file |-> <<accounts>>,
         call |-> ConfigCall("add_account", account_id(c), "id")]

\* ConfigManager.get_account: <<>> is None
get_account(c, id) ==
    IF \E i \in DOMAIN c.accounts : c.accounts[i].id = id
    THEN <<c.accounts[CHOOSE i \in DOMAIN c.accounts :
                         /\ c.accounts[i].id = id
                         /\ \A j \in 1..(i - 1) : c.accounts[j].id # id]>>
    ELSE <<>>

\* ConfigManager.remove_account
remove_account(c, id) ==
    LET accounts == SelectSeq(c.accounts, LAMBDA acc : acc.id # id)
    IN  IF Len(accounts) < Len(c.accounts)
        THEN [accounts |-> accounts, accounts_file |-> <<accounts>>,
              call |-> ConfigCall("remove_account", id, "true")]
        ELSE [c EXCEPT !.call = ConfigCall("remove_account", id, "false")]

\* ConfigManager.update_account: the first account of that id is updated
update_account(c, id, smtp) ==
    IF get_account(c, id) # <<>>
    THEN LET i == CHOOSE k \in DOMAIN c.accounts :
                     /\ c.accounts[k].id = id
                     /\ \A j \in 1..(k - 1) : c.accounts[j].id # id
             accounts == [c.accounts EXCEPT ![i].smtp = smtp]
         IN  [accounts |-> accounts, accounts_file |-> <<accounts>>,
              call |-> ConfigCall("update_account", id, "true")]
    ELSE [c EXCEPT !.call = ConfigCall("update_account", id, "false")]

\* a step of the ConfigManager alone
ConfigStep == UNCHANGED <<store, calls, screen, imap, norm>>

AddAccount(account) ==
    /\ Len(config.accounts) < MaxAccounts
    /\ config' = add_account(config, account)
    /\ ConfigStep

RemoveAccount(id) ==
    /\ config' = remove_account(config, id)
    /\ ConfigStep

UpdateAccount(id, smtp) ==
    /\ config' = update_account(config, id, smtp)
    /\ ConfigStep

\* the ids a caller may pass
AccountIds == {AccountId(n) : n \in 1..MaxAccounts}

NextConfig ==
    \/ \E account \in NewAccounts : AddAccount(account)
    \/ \E id \in AccountIds : RemoveAccount(id)
    \/ \E id \in AccountIds, smtp \in BOOLEAN : UpdateAccount(id, smtp)

\* LocalProvider(account), for the first account of the ConfigManager c
LocalProvider(c) ==
    [live |-> TRUE, connected |-> FALSE,
     emails |-> load_emails(disk, c.accounts[1].email_address),
     smtp_cfg |-> c.accounts[1].smtp, smtp |-> FALSE]

\* the application runs: its inbox screen exists
Running == screen # NoScreen

\* a step of the application leaves the mailbox documents alone
AppStep ==
    UNCHANGED <<addresses, addresses_file, disk, nextId, faults, scope, last,
                imap, norm>>

\* a settings screen is used: one of the calls of the run
SettingsStep ==
    /\ calls < MaxCalls - 6
    /\ calls' = calls + 1
    /\ AppStep

\* the account dictionaries SettingsScreen.add_account builds
SettingsAccounts == {Account("imap", Ext)}

\* the application replaced its provider: a screen constructed with the
\* former instance keeps that instance
keep_provider ==
    IF screen.provider = <<>>
    THEN [screen EXCEPT !.provider = <<prov[ScreenAccount]>>]
    ELSE screen

\* TermMailApp.__init__, compose and on_mount, with a local first account:
\* initialize_provider constructs the provider, compose the InboxScreen;
\* on_mount calls connect_provider() without awaiting it, so the coroutine
\* it returns never runs
AppStart ==
    /\ ~Running
    /\ config.accounts # <<>>
    /\ config.accounts[1].provider = "local"
    /\ config.accounts[1].email_address = ScreenAccount
    /\ prov' = [prov EXCEPT ![ScreenAccount] = LocalProvider(config)]
    /\ screen' = NewScreen
    /\ UNCHANGED <<config, calls>>
    /\ AppStep

\* ConfigureSMTPScreen.action_save for the account id: update_account, then
\* initialize_provider, then pop_screen
SaveSmtp(id, smtp) ==
    /\ Running
    /\ get_account(config, id) # <<>>
    /\ config' = update_account(config, id, smtp)
    /\ prov' = [prov EXCEPT ![ScreenAccount] = LocalProvider(config')]
    /\ screen' = keep_provider
    /\ SettingsStep

\* SettingsScreen.add_account: add_account, initialize_provider, then
\* await connect_provider(), which returns None, so the bell rings and no
\* inbox screen is pushed
SettingsAdd(account) ==
    /\ Running
    /\ Len(config.accounts) < MaxAccounts
    /\ config' = add_account(config, account)
    /\ prov' = [prov EXCEPT ![ScreenAccount] =
                  [LocalProvider(config') EXCEPT !.connected = TRUE]]
    /\ screen' = keep_provider
    /\ SettingsStep

NextApp ==
    \/ AppStart
    \/ \E id \in AccountIds, smtp \in BOOLEAN : SaveSmtp(id, smtp)
    \/ \E account \in SettingsAccounts : SettingsAdd(account)
    \/ Mount
    \/ \E folder \in ScreenFolders : FolderSelected(folder)
    \/ \E i \in 1..MaxWorkers : WorkerStart(i)
    \/ \E i \in 1..MaxWorkers : WorkerComplete(i)

----------------------------------------------------------------------------
(* The IMAP provider *)

\* no IMAPProvider constructed
NoSession == [live |-> FALSE]

----------------------------------------------------------------------------
(* The normalizers *)

\* no backend message at hand
NoRaw == [backend |-> "none"]

\* None, for a folder name
NoFolder == ""

\* An HTML text is a sequence of characters and tags, a tag being one token.
VoidTags == {"<br>"}
OpenTags == {"<b>", "<p>", "<script>"}
CloseTags == {"</b>", "</p>", "</script>"}
Tags == VoidTags \cup OpenTags \cup CloseTags
HtmlTokens == Tags \cup {"H", " "}

RECURSIVE decompose_scripts(_, _)
\* for script in soup(["script", "style"]): script.decompose(); an element
\* that is not closed reaches to the end of the document
decompose_scripts(html, inside) ==
    IF html = <<>> THEN <<>>
    ELSE IF inside
         THEN decompose_scripts(Tail(html), Head(html) # "</script>")
         ELSE IF Head(html) = "<script>"
              THEN decompose_scripts(Tail(html), TRUE)
              ELSE <<Head(html)>> \o decompose_scripts(Tail(html), FALSE)

RECURSIVE get_text(_)
\* <br> replaced by a newline, a newline appended to every <p>, then
\* soup.get_text(): the tags go, the characters stay
get_text(html) ==
    IF html = <<>> THEN <<>>
    ELSE LET t == Head(html)
             out == IF t = "<br>" \/ t = "</p>" THEN <<"\n">>
                    ELSE IF t \in Tags THEN <<>>
                    ELSE <<t>>
         IN  out \o get_text(Tail(html))

RECURSIVE splitlines(_, _)
\* str.splitlines(), the line being read in cur
splitlines(text, cur) ==
    IF text = <<>> THEN (IF cur = <<>> THEN <<>> ELSE <<cur>>)
    ELSE IF Head(text) = "\n"
         THEN <<cur>> \o splitlines(Tail(text), <<>>)
         ELSE splitlines(Tail(text), Append(cur, Head(text)))

RECURSIVE lstrip(_)
lstrip(text) ==
    IF text # <<>> /\ Head(text) \in {" ", "\n"} THEN lstrip(Tail(text)) ELSE text

RECURSIVE rstrip(_)
rstrip(text) ==
    IF text # <<>> /\ text[Len(text)] \in {" ", "\n"}
    THEN rstrip(SubSeq(text, 1, Len(text) - 1))
    ELSE text

\* str.strip()
strip(text) == rstrip(lstrip(text))

RECURSIVE join_lines(_)
\* "\n".join(lines)
join_lines(lines) ==
    IF lines = <<>> THEN <<>>
    ELSE IF Len(lines) = 1 THEN lines[1]
    ELSE lines[1] \o <<"\n">> \o join_lines(Tail(lines))

\* utils.html_parser.html_to_text; the re.sub of line 47 finds nothing to
\* replace once the empty lines are dropped
html_to_text(html_content) ==
    IF html_content = <<>> THEN <<>>
    ELSE LET text == get_text(decompose_scripts(html_content, FALSE))
             lines == [i \in DOMAIN splitlines(text, <<>>) |->
                          strip(splitlines(text, <<>>)[i])]
             kept == SelectSeq(lines, LAMBDA line : line # <<>>)
         IN  strip(join_lines(kept))

RECURSIVE split_commas(_, _)
\* str.split(","), the piece being read in cur
split_commas(text, cur) ==
    IF text = <<>> THEN <<cur>>
    ELSE IF Head(text) = ","
         THEN <<cur>> \o split_commas(Tail(text), <<>>)
         ELSE split_commas(Tail(text), Append(cur, Head(text)))

\* [addr.strip() for addr in addrs.split(",")] if addrs else []
address_list(addrs) ==
    IF addrs = <<>> THEN <<>>
    ELSE [i \in DOMAIN split_commas(addrs, <<>>) |->
             strip(split_commas(addrs, <<>>)[i])]

\* msg.get(name, default) of a parsed message
header(msg, name, default) ==
    IF name \in DOMAIN msg.headers THEN msg.headers[name] ELSE default

\* "(No Subject)"
NoSubject == <<"(","N","o"," ","S","u","b","j","e","c","t",")">>

\* the date of a message: the Date header when it parses, else now
parse_date(msg, now) ==
    LET date_str == header(msg, "Date", <<>>)
    IN  IF date_str # <<>> /\ date_str[1] \in Times THEN date_str[1] ELSE now

RECURSIVE walk_parts(_, _)
\* the loop over msg.walk() (lines 107-129): body holds body_text and
\* body_html found so far
walk_parts(parts, body) ==
    IF parts = <<>> THEN body
    ELSE LET part == Head(parts)
             next == IF part.attachment THEN body
                     ELSE IF part.content_type = "text/plain" /\ part.payload # <<>>
                     THEN [body EXCEPT !.text = part.payload]
                     ELSE IF part.content_type = "text/html" /\ part.payload # <<>>
                     THEN [body EXCEPT !.html = part.payload]
                     ELSE body
         IN  walk_parts(Tail(parts), next)

\* the body of a message that is not multipart (lines 131-137)
single_part(part) ==
    IF part.payload = <<>> THEN [text |-> <<>>, html |-> <<>>]
    ELSE IF part.content_type = "text/html"
    THEN [text |-> <<>>, html |-> part.payload]
    ELSE [text |-> part.payload, html |-> <<>>]

\* IMAPProvider._parse_email(msg_data, email_id) at time now; the Email is
\* built without a folder
parse_email(msg, email_id, now) ==
    LET body == IF msg.multipart
                THEN walk_parts(msg.parts, [text |-> <<>>, html |-> <<>>])
                ELSE single_part(msg.parts[1])
        body_text == IF body.html # <<>> /\ body.text = <<>>
                     THEN html_to_text(body.html)
                     ELSE body.text
        is_read == \/ Contains(<<"\\Seen">>, header(msg, "X-GM-LABELS", <<>>))
                   \/ Contains(<<"\\Seen">>, header(msg, "Flags", <<>>))
    IN  Email(email_id, header(msg, "Subject", NoSubject),
              header(msg, "From", <<>>),
              address_list(header(msg, "To", <<>>)),
              address_list(header(msg, "Cc", <<>>)),
              address_list(header(msg, "Bcc", <<>>)),
              parse_date(msg, now), body_text, body.html,
              is_read, FALSE, NoFolder)

\* NylasProvider._nylas_to_email at time now: body_text and body_html are
\* both the body, the folder is the message's folder_id
nylas_to_email(nylas_message, now) ==
    LET body_html == nylas_message.body
        body_text == IF body_html # <<>> /\ nylas_message.body = <<>>
                     THEN html_to_text(body_html)
                     ELSE nylas_message.body
    IN  Email(nylas_message.id,
              IF nylas_message.subject # <<>> THEN nylas_message.subject
              ELSE NoSubject,
              IF nylas_message.from_ # <<>> THEN nylas_message.from_[1] ELSE <<>>,
              nylas_message.to, nylas_message.cc, nylas_message.bcc,
              IF nylas_message.date # 0 THEN nylas_message.date ELSE now,
              body_text, body_html, ~nylas_message.unread, FALSE,
              nylas_message.folder_id)

\* a normalizer leaves the store, the screen and the session alone
NormStep == UNCHANGED <<store, calls, screen, imap, config>>

\* _parse_email applied to the message an IMAP FETCH returned
ParseEmail ==
    /\ norm.backend = "imap"
    /\ norm.email = <<>>
    /\ norm' = [norm EXCEPT !.email = <<parse_email(norm.raw, norm.id, norm.now)>>]
    /\ NormStep

\* _nylas_to_email applied to a message of the Nylas API
NylasToEmail ==
    /\ norm.backend = "nylas"
    /\ norm.email = <<>>
    /\ norm' = [norm EXCEPT !.email = <<nylas_to_email(norm.raw, norm.now)>>]
    /\ NormStep

\* _dict_to_email applied to a record of a mailbox document
DictToEmail ==
    /\ norm.backend = "local"
    /\ norm.email = <<>>
    /\ norm' = [norm EXCEPT !.email = <<dict_to_email(norm.raw)>>]
    /\ NormStep

NextNorm == ParseEmail \/ NylasToEmail \/ DictToEmail

----------------------------------------------------------------------------
(* The IMAP provider's session.  The server keeps each mailbox as the       *)
(* sequence of its messages; the id of a message is its sequence number in *)
(* the selected mailbox (what SEARCH returns and FETCH, STORE take).       *)

\* the mailboxes of the server, and the folder names a caller passes
Mailboxes == {"INBOX", "Sent"}
FolderArgs == Mailboxes \cup {"Drafts"}

\* a message of the server: uid names it, whatever its sequence number
ServerMessage(uid, subject) ==
    [uid |-> uid, seen |-> FALSE, deleted |-> FALSE,
     raw |-> [multipart |-> FALSE,
              parts |-> <<[content_type |-> "text/plain", payload |-> Hello,
                           attachment |-> FALSE]>>,
              headers |-> [Subject |-> subject, From |-> Ext, To |-> Alice,
                           Date |-> <<1>>]]]

InitialServer ==
    [f \in Mailboxes |->
        IF f = "INBOX" THEN <<ServerMessage(1, Hi), ServerMessage(2, News)>>
        ELSE <<ServerMessage(3, Hi)>>]

\* an id a caller holds: the id, the folder whose fetch or search returned
\* it, and the message it named there
NoHandle == [id |-> 0, folder |-> NoFolder, uid |-> 0]

\* the record of a call: the commands it sent in order, the folder that was
\* selected and the message acted on when its command on an id ran, whether
\* an exception was caught, and what it returned
ImapCall(op, ret) ==
    [op |-> op, ret |-> ret, folder |-> NoFolder, handle |-> NoHandle,
     cmds |-> <<>>, executed |-> FALSE, selected |-> NoFolder, acted |-> 0,
     raised |-> FALSE, result |-> <<>>, uids |-> <<>>]

\* IMAPProvider.__init__, and the server it will talk to; deleted holds the
\* messages whose ids the caller passed to a delete_email that returned True
NewSession ==
    [live |-> TRUE, connected |-> FALSE, handle |-> FALSE,
     selected |-> NoFolder, server |-> InitialServer, known |-> {},
     deleted |-> {}, call |-> ImapCall("init", "none")]

\* imaplib select(): a mailbox the server does not have is answered NO, and
\* the session is left with no mailbox selected
select(folder) == IF folder \in Mailboxes THEN folder ELSE NoFolder

\* EXPUNGE (and CLOSE): the messages flagged \Deleted leave the mailbox
expunge(messages) == SelectSeq(messages, LAMBDA m : ~m.deleted)

\* FETCH (RFC822) of the messages ids in a mailbox sets their \Seen flag
fetched(messages, ids) ==
    [i \in DOMAIN messages |->
        IF \E k \in DOMAIN ids : ids[k] = i
        THEN [messages[i] EXCEPT !.seen = TRUE]
        ELSE messages[i]]

\* SEARCH ALL: every sequence number, ascending
search_all(messages) == [i \in DOMAIN messages |-> i]

RECURSIVE search_text(_, _, _)
\* SEARCH OR SUBJECT q BODY q: the sequence numbers from i on whose subject
\* or body holds q, letter case ignored
search_text(messages, query, i) ==
    IF i > Len(messages) THEN <<>>
    ELSE LET raw == messages[i].raw
             hit == \/ Contains(lower(query), lower(raw.headers.Subject))
                    \/ Contains(lower(query), lower(raw.parts[1].payload))
         IN  (IF hit THEN <<i>> ELSE <<>>) \o search_text(messages, query, i + 1)

\* email_ids[::-1]
reversed(ids) == [k \in DOMAIN ids |-> ids[Len(ids) + 1 - k]]

\* a step of the session leaves the store, the screen and the normalizer alone
ImapStep ==
    /\ calls < MaxCalls - 3
    /\ calls' = calls + 1
    /\ UNCHANGED <<store, screen, norm, config>>

\* IMAPProvider(config)
ImapNew ==
    /\ imap = NoSession
    /\ imap' = NewSession
    /\ UNCHANGED <<store, calls, screen, norm, config>>

\* connect(): IMAP4_SSL(...) is refused, or login raises on the new session,
\* or both succeed
ImapConnect(outcome) ==
    /\ imap.live
    /\ imap' =
         LET call == [ImapCall("connect", "false") EXCEPT !.raised = outcome # "ok"]
         IN  CASE outcome = "refused" ->
                    [imap EXCEPT !.connected = FALSE, !.call = call]
               [] outcome = "login" ->
                    [imap EXCEPT !.connected = FALSE, !.handle = TRUE,
                                 !.selected = NoFolder, !.call = call]
               [] OTHER ->
                    [imap EXCEPT !.connected = TRUE, !.handle = TRUE,
                                 !.selected = NoFolder,
                                 !.call = [call EXCEPT !.ret = "true"]]
    /\ ImapStep

\* disconnect(): close() purges the selected mailbox, and raises when none
\* is selected
ImapDisconnect ==
    /\ imap.live
    /\ imap' =
         LET call == ImapCall("disconnect", "none")
         IN  IF imap.handle /\ imap.selected # NoFolder
             THEN [imap EXCEPT !.connected = FALSE, !.handle = FALSE,
                               !.selected = NoFolder,
                               !.server[imap.selected] = expunge(@),
                               !.call = [call EXCEPT !.cmds = <<"CLOSE", "LOGOUT">>]]
             ELSE [imap EXCEPT !.connected = FALSE, !.handle = FALSE,
                               !.selected = NoFolder, !.call = call]
    /\ ImapStep

\* fetch_emails and search_emails: select the folder, search, fetch each id.
\* fail names the command that raises, or the SEARCH that is answered NO.
read_folder(op, folder, ids_wanted, fail) ==
    LET call == [ImapCall(op, "empty") EXCEPT !.folder = folder]
        sel == select(folder)
        messages == IF sel = NoFolder THEN <<>> ELSE imap.server[sel]
        ids == ids_wanted[sel]
    IN  IF ~(imap.connected /\ imap.handle) THEN [imap EXCEPT !.call = call]
        ELSE IF fail = "select"
        THEN [imap EXCEPT !.call = [call EXCEPT !.cmds = <<"SELECT">>,
                                                !.raised = TRUE]]
        ELSE IF sel = NoFolder
        THEN [imap EXCEPT !.selected = sel,
                          !.call = [call EXCEPT !.cmds = <<"SELECT">>,
                                                !.raised = TRUE]]
        ELSE IF fail \in {"search", "search_no"}
        THEN [imap EXCEPT !.selected = sel,
                          !.call = [call EXCEPT !.cmds = <<"SELECT", "SEARCH">>,
                                                !.selected = sel,
                                                !.raised = (fail = "search")]]
        ELSE IF fail = "fetch" /\ ids # <<>>
        THEN [imap EXCEPT !.selected = sel,
                          !.call = [call EXCEPT !.cmds = <<"SELECT", "SEARCH", "FETCH">>,
                                                !.selected = sel,
                                                !.raised = TRUE]]
        ELSE [imap EXCEPT
                 !.selected = sel,
                 !.server[sel] = fetched(messages, ids),
                 !.known = @ \cup {[id |-> ids[k], folder |-> folder,
                                    uid |-> messages[ids[k]].uid] : k \in DOMAIN ids},
                 !.call = [call EXCEPT
                     !.ret = "list",
                     !.cmds = <<"SELECT", "SEARCH">> \o [k \in DOMAIN ids |-> "FETCH"],
                     !.selected = sel,
                     !.result = [k \in DOMAIN ids |->
                                   parse_email(messages[ids[k]].raw, ids[k], MaxTime)],
                     !.uids = [k \in DOMAIN ids |-> messages[ids[k]].uid]]]

ReadFails == {"none", "select", "search", "search_no", "fetch"}

\* fetch_emails(folder, limit, offset)
ImapFetch(folder, limit, offset, fail) ==
    /\ imap.live
    /\ imap' = read_folder("fetch_emails", folder,
                   [f \in Mailboxes \cup {NoFolder} |->
                       IF f = NoFolder THEN <<>>
                       ELSE PySlice(reversed(search_all(imap.server[f])),
                                    offset, offset + limit)],
                   fail)
    /\ ImapStep

\* search_emails(query, folder, limit): search_folder = folder or "INBOX"
ImapSearch(query, folder, limit, fail) ==
    /\ imap.live
    /\ imap' = read_folder("search_emails",
                   IF folder = NoFolder THEN "INBOX" ELSE folder,
                   [f \in Mailboxes \cup {NoFolder} |->
                       IF f = NoFolder THEN <<>>
                       ELSE PySlice(search_text(imap.server[f], query, 1), 0, limit)],
                   fail)
    /\ ImapStep

\* get_email(email_id), for an id h the caller holds: INBOX is selected,
\* whatever folder the id came from
ImapGet(h, fail) ==
    /\ imap.live
    /\ imap' =
         LET call == [ImapCall("get_email", "none") EXCEPT !.handle = h]
             sel == select("INBOX")
             messages == imap.server[sel]
         IN  IF ~(imap.connected /\ imap.handle) THEN [imap EXCEPT !.call = call]
             ELSE IF fail = "select"
             THEN [imap EXCEPT !.call = [call EXCEPT !.cmds = <<"SELECT">>,
                                                     !.raised = TRUE]]
             ELSE IF fail = "fetch"
             THEN [imap EXCEPT !.selected = sel,
                               !.call = [call EXCEPT !.cmds = <<"SELECT", "FETCH">>,
                                                     !.selected = sel,
                                                     !.raised = TRUE]]
             ELSE IF h.id \in DOMAIN messages
             THEN [imap EXCEPT
                      !.selected = sel,
                      !.server[sel] = fetched(messages, <<h.id>>),
                      !.call = [call EXCEPT
                          !.ret = "email",
                          !.cmds = <<"SELECT", "FETCH">>,
                          !.executed = TRUE,
                          !.selected = sel,
                          !.acted = messages[h.id].uid,
                          !.result = <<parse_email(messages[h.id].raw, h.id, MaxTime)>>,
                          !.uids = <<messages[h.id].uid>>]]
             ELSE [imap EXCEPT !.selected = sel,
                               !.call = [call EXCEPT !.cmds = <<"SELECT", "FETCH">>,
                                                     !.executed = TRUE,
                                                     !.selected = sel]]
    /\ ImapStep

\* mark_read(email_id, read), for an id h the caller holds.  No folder is
\* selected by the call.  The flag is passed as bytes, so imaplib sends the
\* flag list (b'\\Seen'), which no server takes for \Seen: the STORE is
\* answered BAD (imaplib raises) or NO (it does not), and sets no flag.
ImapMarkRead(h, read, answer) ==
    /\ imap.live
    /\ imap' =
         LET call == [ImapCall("mark_read", "false") EXCEPT !.handle = h]
         IN  IF ~(imap.connected /\ imap.handle) THEN [imap EXCEPT !.call = call]
             ELSE IF imap.selected = NoFolder
             THEN [imap EXCEPT !.call = [call EXCEPT !.raised = TRUE]]
             ELSE [imap EXCEPT
                      !.call = [call EXCEPT
                          !.ret = IF answer = "NO" THEN "true" ELSE "false",
                          !.cmds = <<"STORE +FLAGS">>,
                          !.executed = TRUE,
                          !.selected = imap.selected,
                          !.raised = (answer = "BAD")]]
    /\ ImapStep

\* delete_email(email_id), for an id h the caller holds: STORE +FLAGS
\* \Deleted on message h.id of the selected mailbox, then EXPUNGE.  No
\* folder is selected by the call.  A STORE on a sequence number the
\* mailbox does not have is answered NO or BAD.  The caller drops the id
\* it deleted and keeps the other ids it holds.
ImapDelete(h, fail) ==
    /\ imap.live
    /\ imap' =
         LET call == [ImapCall("delete_email", "false") EXCEPT !.handle = h]
             sel == imap.selected
             messages == imap.server[sel]
             there == h.id \in DOMAIN messages
             marked == IF there THEN [messages EXCEPT ![h.id].deleted = TRUE]
                       ELSE messages
         IN  IF ~(imap.connected /\ imap.handle) THEN [imap EXCEPT !.call = call]
             ELSE IF sel = NoFolder
             THEN [imap EXCEPT !.call = [call EXCEPT !.raised = TRUE]]
             ELSE IF fail = "store"
             THEN [imap EXCEPT !.call = [call EXCEPT !.cmds = <<"STORE +FLAGS \\Deleted">>,
                                                     !.selected = sel,
                                                     !.raised = TRUE]]
             ELSE IF fail = "expunge"
             THEN [imap EXCEPT
                      !.server[sel] = marked,
                      !.call = [call EXCEPT
                          !.cmds = <<"STORE +FLAGS \\Deleted", "EXPUNGE">>,
                          !.executed = TRUE,
                          !.selected = sel,
                          !.acted = IF there THEN messages[h.id].uid ELSE 0,
                          !.raised = TRUE]]
             ELSE [imap EXCEPT
                      !.server[sel] = expunge(marked),
                      !.known = @ \ {h},
                      !.deleted = @ \cup {h.uid},
                      !.call = [call EXCEPT
                          !.ret = "true",
                          !.cmds = <<"STORE +FLAGS \\Deleted", "EXPUNGE">>,
                          !.executed = TRUE,
                          !.selected = sel,
                          !.acted = IF there THEN messages[h.id].uid ELSE 0]]
    /\ ImapStep

\* the ids the caller holds
Known == IF imap.live THEN imap.known ELSE {}

\* the calls a program makes on an IMAPProvider
NextImap ==
    \/ ImapNew
    \/ \E outcome \in {"ok", "refused", "login"} : ImapConnect(outcome)
    \/ ImapDisconnect
    \/ \E folder \in FolderArgs, limit \in {1, 50}, offset \in {0, 1},
          fail \in ReadFails : ImapFetch(folder, limit, offset, fail)
    \/ \E query \in {Hi, <<"e">>}, folder \in {NoFolder, "Sent"}, limit \in {1, 50},
          fail \in ReadFails : ImapSearch(query, folder, limit, fail)
    \/ \E h \in Known, fail \in {"none", "select", "fetch"} : ImapGet(h, fail)
    \/ \E h \in Known, read \in BOOLEAN, answer \in {"NO", "BAD"} :
          ImapMarkRead(h, read, answer)
    \/ \E h \in Known, fail \in {"none", "store", "expunge"} : ImapDelete(h, fail)

\* the parts of the program a run does not touch
Elsewhere ==
    screen = NoScreen /\ imap = NoSession /\ norm = NoRaw /\ config = NoConfig

----------------------------------------------------------------------------
(* The specifications *)

\* the `cc` lists of a send; <<>> is None.  A "copies" run sends copies to
\* bob@local
CcLists == IF scope = "copies" THEN {<<>>, <<Bob>>} ELSE {<<>>}

\* the inputs of a run.  "router": both addresses, every `to` list, one
\* message text and one clock value.  "mailbox": one address, mail that
\* stays in its own mailbox, every message text and clock value.  "routing":
\* both addresses, mail for bob@local, whose address comes and goes.
LocalPartsIn ==
    CASE scope \in {"mailbox", "folders"} -> {AliceLP, <<>>}
      [] scope = "routing" -> {BobLP}
      [] OTHER -> LocalParts
Instances == IF scope \in {"mailbox", "folders"} THEN {Alice} ELSE LocalAddrs
ToListsIn ==
    CASE scope = "mailbox" -> {<<Ext>>}
      [] scope \in {"routing", "addresses"} -> {<<Bob>>}
      [] scope = "copies" -> {<<Ext>>, <<Alice>>}
      [] scope = "folders" -> {<<Alice>>}
      [] OTHER -> ToLists
ContentsIn == IF scope = "mailbox" THEN Contents ELSE {HiHello}
TimesIn == IF scope = "mailbox" THEN Times ELSE {1}

\* the ids a caller may pass: the ids the instance holds and one it does not
CallIds(a) == IdsOf(prov[a].emails) \cup {nextId}

\* the calls of one run; a mailbox run starts from a stored document and is
\* that much shorter
CallBudget ==
    CASE scope = "mailbox" -> MaxCalls - 4
      [] scope = "routing" -> MaxCalls - 1
      [] scope \in {"addresses", "copies"} -> MaxCalls - 3
      [] scope = "folders" -> MaxCalls - 2
      [] OTHER -> MaxCalls

\* a call is made; the environment stays what it is
Called ==
    /\ calls < CallBudget
    /\ calls' = calls + 1
    /\ UNCHANGED <<faults, scope, screen, imap, norm, config>>

Next ==
    \/ \E local_part \in LocalPartsIn, ok \in AddressWriteOutcomes :
          Called /\ CreateAddress(local_part, Local, ok)
    \/ \E a \in Instances : Called /\ NewProvider(a)
    \/ \E a \in Instances : Called /\ Connect(a)
    \/ \E a \in Instances, ok \in WriteOutcomes : Called /\ Disconnect(a, ok)
    \/ \E a \in Instances : \E id \in CallIds(a), read \in BOOLEAN, ok \in WriteOutcomes :
          Called /\ MarkRead(a, id, read, ok)
    \/ \E a \in Instances : \E id \in CallIds(a), ok \in WriteOutcomes :
          Called /\ DeleteEmail(a, id, ok)
    \/ \E a \in Instances, to \in ToListsIn, c \in ContentsIn, cc \in CcLists,
          now \in TimesIn, relay \in {"none", "ok", "fail_send", "fail_connect"},
          fail_at \in (IF faults THEN 0..2 ELSE {0}), ok \in WriteOutcomes :
          Called /\ SendEmail(a, to, c, cc, now, relay, fail_at, ok)

\* an empty storage directory, no address, no instance
Start ==
    /\ addresses = <<>>
    /\ addresses_file = NoAddressesFile
    /\ disk = [f \in Files |-> NoFile]
    /\ prov = [a \in LocalAddrs |-> NoProvider]
    /\ nextId = 1
    /\ calls = 0
    /\ last = Call("start", <<>>, "none")
    /\ Elsewhere

Init == Start /\ faults = FALSE /\ scope = "router"

\* the same, on a disk whose writes may fail
InitFaults == Start /\ faults = TRUE /\ scope = "router"

\* records an earlier run, or another writer of the documented file format,
\* left in the document of alice@local
SeedInboxOld ==
    email_to_dict(Email(101, Hi, Bob, <<Alice>>, <<>>, <<>>, 1, Hello, <<>>,
                        FALSE, FALSE, "INBOX"))
SeedInboxNew ==
    email_to_dict(Email(102, News, Bob, <<Alice>>, <<>>, <<>>, 2, <<>>, HtmlHi,
                        TRUE, FALSE, "INBOX"))
SeedArchive ==
    email_to_dict(Email(103, Hi, Ext, <<Alice>>, <<>>, <<>>, 1, <<>>, <<>>,
                        FALSE, FALSE, "Archive"))
SeedRecords == {SeedInboxOld, SeedInboxNew, SeedArchive}

\* the documents: the records in any order, none twice
SeedDocs ==
    {<<>>} \cup {<<r>> : r \in SeedRecords}
    \cup {<<pair[1], pair[2]>> :
             pair \in {q \in SeedRecords \X SeedRecords : q[1] # q[2]}}

\* a storage directory that holds alice@local and its document
InitMailbox ==
    /\ addresses = <<[email_address |-> Alice, local_part |-> AliceLP, domain |-> Local]>>
    /\ addresses_file = AddressesFile(addresses)
    /\ \E doc \in SeedDocs :
          disk = [f \in Files |-> IF f = FileName(Alice)
                                  THEN [exists |-> TRUE, emails |-> doc]
                                  ELSE NoFile]
    /\ prov = [a \in LocalAddrs |-> NoProvider]
    /\ nextId = 1
    /\ calls = 0
    /\ faults = FALSE
    /\ scope = "mailbox"
    /\ last = Call("start", <<>>, "none")
    /\ Elsewhere

\* an InboxScreen constructed for the LocalProvider of alice@local, which
\* loaded one of the documents and was or was not connected
InitScreen ==
    /\ addresses = <<[email_address |-> Alice, local_part |-> AliceLP, domain |-> Local]>>
    /\ addresses_file = AddressesFile(addresses)
    /\ \E doc \in SeedDocs, connected \in BOOLEAN :
          /\ disk = [f \in Files |-> IF f = FileName(Alice)
                                      THEN [exists |-> TRUE, emails |-> doc]
                                      ELSE NoFile]
          /\ prov = [a \in LocalAddrs |->
                       IF a = ScreenAccount
                       THEN [NoProvider EXCEPT !.live = TRUE,
                                               !.connected = connected,
                                               !.emails = doc]
                       ELSE NoProvider]
    /\ nextId = 1
    /\ calls = 0
    /\ faults = FALSE
    /\ scope = "screen"
    /\ last = Call("start", <<>>, "none")
    /\ screen = NewScreen
    /\ imap = NoSession
    /\ norm = NoRaw
    /\ config = NoConfig

\* a storage directory in which alice@local and bob@local are registered:
\* create_email_address was called for both, no mailbox document exists
InitRouting ==
    /\ addresses = <<[email_address |-> Alice, local_part |-> AliceLP, domain |-> Local],
                     [email_address |-> Bob, local_part |-> BobLP, domain |-> Local]>>
    /\ addresses_file = AddressesFile(addresses)
    /\ disk = [f \in Files |-> NoFile]
    /\ prov = [a \in LocalAddrs |-> NoProvider]
    /\ nextId = 1
    /\ calls = 0
    /\ faults = FALSE
    /\ scope = "routing"
    /\ last = Call("start", <<>>, "none")
    /\ Elsewhere

\* the calls, address removal included
NextRouting ==
    \/ Next
    \/ \E a \in LocalAddrs \ {Alice}, ok \in AddressWriteOutcomes :
          Called /\ DeleteAddress(a, ok)

\* the HTML bodies: up to MaxHtml characters and tags
HtmlTexts == UNION {[1..n -> HtmlTokens] : n \in 0..MaxHtml}
PlainTexts == {<<>>, Hi, <<" ">>}

\* a MIME part: of a multipart container, get_payload(decode=True) is None
Part(content_type, payload, attachment) ==
    [content_type |-> content_type, payload |-> payload, attachment |-> attachment]
Container == Part("multipart/alternative", <<>>, FALSE)
Attached == Part("text/plain", Hi, TRUE)

\* the headers of a message: all of them, or none
FullHeaders ==
    [Subject |-> Hi, From |-> Ext, To |-> Alice \o <<",", " ">> \o Bob,
     Date |-> <<1>>, Flags |-> <<"\\Seen">>]
NoHeaders == <<>>

\* the messages a server returns: one part of text or of HTML, or a
\* container with a text part, an HTML part and an attachment, each optional
RawMessages ==
    LET singles == {Part("text/plain", t, FALSE) : t \in PlainTexts}
                   \cup {Part("text/html", h, FALSE) : h \in HtmlTexts}
        plain == {<<>>} \cup {<<Part("text/plain", t, FALSE)>> : t \in PlainTexts}
        html == {<<>>} \cup {<<Part("text/html", h, FALSE)>> : h \in HtmlTexts}
        files == {<<>>, <<Attached>>}
    IN  {[multipart |-> FALSE, parts |-> <<part>>, headers |-> hs] :
            part \in singles, hs \in {FullHeaders, NoHeaders}}
        \cup {[multipart |-> TRUE, parts |-> <<Container>> \o t \o h \o f,
               headers |-> FullHeaders] : t \in plain, h \in html, f \in files}

\* the messages of the Nylas API: a body or none, a folder_id or none
NylasMessages ==
    [id : {1}, subject : {<<>>, Hi}, from_ : {<<>>, <<Ext>>}, to : {<<Alice>>},
     cc : {<<>>}, bcc : {<<>>}, date : {0, 1}, body : {<<>>, Hi, HtmlHi},
     unread : BOOLEAN, folder_id : {NoFolder, "INBOX"}]

\* a message of one backend, before its normalizer ran
InitNorm ==
    /\ addresses = <<>>
    /\ addresses_file = NoAddressesFile
    /\ disk = [f \in Files |-> NoFile]
    /\ prov = [a \in LocalAddrs |-> NoProvider]
    /\ nextId = 1
    /\ calls = 0
    /\ faults = FALSE
    /\ scope = "normalizer"
    /\ last = Call("start", <<>>, "none")
    /\ screen = NoScreen
    /\ imap = NoSession
    /\ config = NoConfig
    /\ \/ \E raw \in RawMessages :
             norm = [backend |-> "imap", raw |-> raw, id |-> 1, now |-> MaxTime,
                     email |-> <<>>]
       \/ \E raw \in NylasMessages :
             norm = [backend |-> "nylas", raw |-> raw, id |-> raw.id,
                     now |-> MaxTime, email |-> <<>>]
       \/ \E raw \in SeedRecords :
             norm = [backend |-> "local", raw |-> raw, id |-> raw.id,
                     now |-> MaxTime, email |-> <<>>]

Spec == Init /\ [][Next]_vars

\* no IMAPProvider constructed yet
InitImap ==
    /\ addresses = <<>>
    /\ addresses_file = NoAddressesFile
    /\ disk = [f \in Files |-> NoFile]
    /\ prov = [a \in LocalAddrs |-> NoProvider]
    /\ nextId = 1
    /\ calls = 0
    /\ faults = FALSE
    /\ scope = "imap"
    /\ last = Call("start", <<>>, "none")
    /\ screen = NoScreen
    /\ imap = NoSession
    /\ norm = NoRaw
    /\ config = NoConfig

SpecImap == InitImap /\ [][NextImap]_vars

SpecNorm == InitNorm /\ [][NextNorm]_vars

SpecRouting == InitRouting /\ [][NextRouting]_vars

\* an empty storage directory, in which addresses.json may fail to be written
InitAddresses == Start /\ faults = FALSE /\ scope = "addresses"

SpecAddresses == InitAddresses /\ [][NextRouting]_vars

SpecScreen == InitScreen /\ [][NextScreen]_vars

\* the Email objects handed to receive_email of instance a
Received(a) ==
    {Email(id, Hi, Ext, <<a>>, <<>>, <<>>, 1, Hello, <<>>, FALSE, FALSE, folder) :
        id \in CallIds(a), folder \in {"INBOX", ""}}

\* the calls of a run and the deliveries to its instances
NextFolders ==
    \/ Next
    \/ \E a \in Instances : \E email_obj \in Received(a), ok \in WriteOutcomes :
          Called /\ ReceiveEmail(a, email_obj, ok)

\* a storage directory that holds alice@local and its empty mailbox
InitFolders ==
    /\ addresses = <<[email_address |-> Alice, local_part |-> AliceLP, domain |-> Local]>>
    /\ addresses_file = AddressesFile(addresses)
    /\ disk = [f \in Files |-> IF f = FileName(Alice)
                                THEN [exists |-> TRUE, emails |-> <<>>]
                                ELSE NoFile]
    /\ prov = [a \in LocalAddrs |-> NoProvider]
    /\ nextId = 1
    /\ calls = 0
    /\ faults = FALSE
    /\ scope = "folders"
    /\ last = Call("start", <<>>, "none")
    /\ Elsewhere

SpecFolders == InitFolders /\ [][NextFolders]_vars

SpecInbox == InitScreen /\ [][NextInbox]_vars

\* a storage directory in which alice@local and bob@local are registered and
\* both have an empty mailbox document
InitCopies ==
    /\ addresses = <<[email_address |-> Alice, local_part |-> AliceLP, domain |-> Local],
                     [email_address |-> Bob, local_part |-> BobLP, domain |-> Local]>>
    /\ addresses_file = AddressesFile(addresses)
    /\ disk = [f \in Files |-> IF f \in {FileName(Alice), FileName(Bob)}
                                THEN [exists |-> TRUE, emails |-> <<>>]
                                ELSE NoFile]
    /\ prov = [a \in LocalAddrs |-> NoProvider]
    /\ nextId = 1
    /\ calls = 0
    /\ faults = FALSE
    /\ scope = "copies"
    /\ last = Call("start", <<>>, "none")
    /\ Elsewhere

SpecCopies == InitCopies /\ [][Next]_vars

\* a ConfigManager over an empty config directory
InitConfig ==
    /\ Start
    /\ faults = FALSE
    /\ scope = "config"

SpecConfig == InitConfig /\ [][NextConfig]_vars

\* the application before it is started: alice@local is the one configured
\* account, and its mailbox holds one of the documents
InitApp ==
    /\ addresses = <<[email_address |-> Alice, local_part |-> AliceLP, domain |-> Local]>>
    /\ addresses_file = AddressesFile(addresses)
    /\ \E doc \in SeedDocs :
          disk = [f \in Files |-> IF f = FileName(Alice)
                                   THEN [exists |-> TRUE, emails |-> doc]
                                   ELSE NoFile]
    /\ prov = [a \in LocalAddrs |-> NoProvider]
    /\ nextId = 1
    /\ calls = 0
    /\ faults = FALSE
    /\ scope = "app"
    /\ last = Call("start", <<>>, "none")
    /\ screen = NoScreen
    /\ imap = NoSession
    /\ norm = NoRaw
    /\ config = add_account(NoConfig, Account("local", Alice))

SpecApp == InitApp /\ [][NextApp]_vars

SpecMailbox == InitMailbox /\ [][Next]_vars

SpecFaults == InitFaults /\ [][Next]_vars

----------------------------------------------------------------------------
(* The claims *)

\* what a LocalProvider constructed and connected now for addr would hold
FreshProvider(addr) ==
    [NoProvider EXCEPT !.live = TRUE, !.connected = TRUE,
                       !.emails = load_emails(disk, addr)]

\* the Folder called name in a get_folders result
FolderNamed(folders, name) ==
    folders[CHOOSE i \in DOMAIN folders : folders[i].name = name]

\* the call just made was send_email of the connected instance a
SentBy(a) ==
    /\ last'.op = "send_email"
    /\ last'.who = a
    /\ prov[a].live
    /\ prov[a].connected

\* the run so far: create alice, create bob, construct and connect alice's
\* instance, alice sends "Hi" / "Hello" to bob@local
C1_Scenario ==
    /\ calls = 5
    /\ Len(addresses) = 2
    /\ addresses[1].email_address = Alice
    /\ addresses[2].email_address = Bob
    /\ prov[Alice].connected
    /\ last.op = "send_email" /\ last.who = Alice /\ last.to = <<Bob>>

\* C1: on an empty storage directory, after create_email_address('alice') and
\* create_email_address('bob'), alice's connected instance sends "Hi"/"Hello"
\* to bob@local: bob's INBOX has total-count 1 and unread-count 1, alice's Sent
\* has total-count 1, and the two stored ids differ.
C1_EndToEnd ==
    C1_Scenario =>
        LET bob == get_folders(FreshProvider(Bob))
            alice == get_folders(FreshProvider(Alice))
        IN  /\ FolderNamed(bob, "INBOX").total_count = 1
            /\ FolderNamed(bob, "INBOX").unread_count = 1
            /\ FolderNamed(alice, "Sent").total_count = 1
            /\ IdsOf(load_emails(disk, Bob)) \cap IdsOf(load_emails(disk, Alice)) = {}

\* C2: a send_email of a connected instance without relay credentials to a
\* `to` list of local addresses only returns true and adds exactly one record
\* to each recipient's document, with folder "INBOX" and an id other than the
\* id of the sender's Sent record.
C2_LocalSendAddsOneInboxRecord ==
    [][\A a \in LocalAddrs :
        ( /\ SentBy(a)
          /\ ~prov[a].smtp_cfg
          /\ \A i \in DOMAIN last'.to : is_local_address(disk, last'.to[i]) )
        => /\ last'.ret = "true"
           /\ \A i \in DOMAIN last'.to :
                LET f == FileName(last'.to[i])
                    new == IdsOf(disk'[f].emails) \ IdsOf(disk[f].emails)
                IN  /\ Cardinality(new) = 1
                    /\ \A id \in new :
                          /\ Lookup(disk'[f].emails, id).folder = "INBOX"
                          /\ id # last'.id
      ]_vars

\* C3: when send_email returns true, the document of every address of `to`
\* that was local at send time (the sender's own included) holds the records
\* it held before, followed by a clone of the message with a new id and folder
\* "INBOX".
C3_CloneAppendedToEveryLocalRecipient ==
    [][(last'.op = "send_email" /\ last'.ret = "true") =>
        \A i \in DOMAIN last'.to :
            is_local_address(disk, last'.to[i]) =>
                LET before == disk[FileName(last'.to[i])].emails
                    after == disk'[FileName(last'.to[i])].emails
                IN  /\ Len(after) > Len(before)
                    /\ SubSeq(after, 1, Len(before)) = before
                    /\ \E j \in (Len(before) + 1)..Len(after) :
                          /\ after[j].folder = "INBOX"
                          /\ after[j].id # last'.id
                          /\ after[j].id \notin IdsOf(before)
                          /\ after[j].subject = Hi
                          /\ after[j].from_address = last'.who
      ]_vars

\* the call just made was delete_email of the connected instance a
DeletedBy(a) ==
    /\ last'.op = "delete_email"
    /\ last'.who = a
    /\ prov[a].live
    /\ prov[a].connected

\* C4: delete_email(id) of a connected instance that holds id sets only that
\* record's folder to "Trash": the number of records, the record's other
\* fields and every other record are unchanged and get_email(id) still returns
\* the record; for an unknown id it returns false and changes nothing.
C4_DeleteIsSoft ==
    [][\A a \in LocalAddrs :
        DeletedBy(a) =>
            LET before == prov[a].emails
                after == prov'[a].emails
                id == last'.id
            IN  IF HasId(before, id)
                THEN /\ last'.ret = "true"
                     /\ Len(after) = Len(before)
                     /\ \A i \in DOMAIN before :
                          after[i] = IF before[i].id = id
                                     THEN [before[i] EXCEPT !.folder = "Trash"]
                                     ELSE before[i]
                     /\ get_email(prov'[a], id) =
                          <<dict_to_email([Lookup(before, id) EXCEPT !.folder = "Trash"])>>
                     /\ \A b \in LocalAddrs \ {a} : prov'[b] = prov[b]
                ELSE /\ last'.ret = "false"
                     /\ prov' = prov
                     /\ disk' = disk
                     /\ addresses' = addresses
      ]_vars

\* a delete_email that returned true on a mailbox of two records or more
C4_Witness ==
    /\ last.op = "delete_email"
    /\ last.ret = "true"
    /\ Len(prov[last.who].emails) >= 2
    /\ Lookup(prov[last.who].emails, last.id).folder = "Trash"

\* C5: when the disk write of the mailbox document fails during mark_read,
\* delete_email or send_email, the call does not return true while the change
\* is missing from the document on disk.
C5_WriteFailureIsNotSuccess ==
    (last.op \in {"mark_read", "delete_email", "send_email"} /\ last.ret = "true") =>
        LET doc == load_emails(disk, last.who)
            mem == prov[last.who].emails
        IN  /\ HasId(doc, last.id)
            /\ Lookup(doc, last.id) = Lookup(mem, last.id)

\* C6: every send_email of a connected instance adds exactly one record to
\* the sender's own mailbox, with folder "Sent", the instance's address as
\* from-address and is_read false, delivers to the local recipients and
\* returns true, whatever the relay did.
C6_SentCopyAndDeliveryWhateverTheRelay ==
    [][\A a \in LocalAddrs :
        SentBy(a) =>
            LET before == prov[a].emails
                after == prov'[a].emails
            IN  /\ last'.ret = "true"
                /\ Len(after) = Len(before) + 1
                /\ SubSeq(after, 1, Len(before)) = before
                /\ after[Len(after)].folder = "Sent"
                /\ after[Len(after)].from_address = a
                /\ after[Len(after)].is_read = FALSE
                /\ \A i \in DOMAIN last'.local :
                     LET f == FileName(last'.local[i])
                     IN  \E j \in DOMAIN disk'[f].emails :
                            /\ disk'[f].emails[j].folder = "INBOX"
                            /\ disk'[f].emails[j].id # last'.id
                            /\ disk'[f].emails[j].id \notin IdsOf(disk[f].emails)
      ]_vars

\* the folder names a caller may ask for
FolderNames == {"INBOX", "Sent", "Drafts", "Trash", "Archive"}

\* the positions of the records of emails in folder name
InFolder(emails, name) == {j \in DOMAIN emails : emails[j].folder = name}

RECURSIVE SumTotals(_)
SumTotals(folders) ==
    IF folders = <<>> THEN 0
    ELSE Head(folders).total_count + SumTotals(Tail(folders))

\* C7: after any sequence of send, mark_read and delete, each Folder of
\* get_folders has total_count = the number of stored records of that folder
\* name and unread_count = the number of those with is_read false; the
\* total_counts sum to the number of records of the mailbox.
C7_FolderCountsAreDerived ==
    \A a \in LocalAddrs :
        LET emails == prov[a].emails
            folders == get_folders(prov[a])
        IN  /\ \A i \in DOMAIN folders :
                 /\ folders[i].total_count =
                        Cardinality(InFolder(emails, folders[i].name))
                 /\ folders[i].unread_count =
                        Cardinality({j \in InFolder(emails, folders[i].name) :
                                        ~emails[j].is_read})
            /\ SumTotals(folders) = Len(emails)

\* a mailbox with a read and an unread record, in Sent and in Trash, after a delete
C7_Witness ==
    /\ last.op = "delete_email"
    /\ last.ret = "true"
    /\ LET emails == prov[last.who].emails
           folders == get_folders(prov[last.who])
       IN  /\ FolderNamed(folders, "Trash").total_count >= 1
           /\ FolderNamed(folders, "Sent").total_count >= 1
           /\ \E i, j \in DOMAIN emails : emails[i].is_read /\ ~emails[j].is_read

\* C8: get_folders returns INBOX, Sent, Drafts and Trash once each (counts 0
\* when no record has that folder), followed by exactly the other folder names
\* of the stored records, each once; for a mailbox without messages the result
\* is those four folders with unread-count 0 and total-count 0.
C8_CanonicalFoldersThenOthers ==
    \A a \in LocalAddrs :
        LET emails == prov[a].emails
            folders == get_folders(prov[a])
            defaults == {"INBOX", "Sent", "Drafts", "Trash"}
        IN  /\ Len(folders) >= 4
            /\ folders[1].name = "INBOX" /\ folders[2].name = "Sent"
            /\ folders[3].name = "Drafts" /\ folders[4].name = "Trash"
            /\ \A i, j \in DOMAIN folders : i # j => folders[i].name # folders[j].name
            /\ {folders[i].name : i \in 5..Len(folders)} =
                  {emails[j].folder : j \in DOMAIN emails} \ defaults
            /\ \A i \in 1..4 :
                  InFolder(emails, folders[i].name) = {} =>
                      folders[i].total_count = 0 /\ folders[i].unread_count = 0
            /\ emails = <<>> =>
                  /\ Len(folders) = 4
                  /\ \A i \in 1..4 :
                        folders[i].total_count = 0 /\ folders[i].unread_count = 0

\* an instance whose mailbox holds a record of a fifth folder and one of INBOX
C8_Witness ==
    \E a \in LocalAddrs :
        /\ prov[a].live
        /\ InFolder(prov[a].emails, "Archive") # {}
        /\ InFolder(prov[a].emails, "INBOX") # {}
        /\ Len(get_folders(prov[a])) = 5

\* C9: for a connected instance and every folder, limit L >= 0 and offset
\* O >= 0, fetch_emails(folder, L, O) is the slice [O : O+L] of the list of all
\* stored records of that folder ordered by timestamp descending; it is empty
\* when O is at or beyond the number of such records.
C9_FetchIsSliceOfSortedFolder ==
    \A a \in LocalAddrs :
        prov[a].connected =>
            \A folder \in FolderNames :
                LET emails == prov[a].emails
                    n == Cardinality(InFolder(emails, folder))
                    full == fetch_emails(prov[a], folder, n, 0)
                IN  /\ Len(full) = n
                    /\ {full[i].id : i \in DOMAIN full} =
                          {emails[j].id : j \in InFolder(emails, folder)}
                    /\ \A i \in DOMAIN full :
                          LET d == Lookup(emails, full[i].id)
                          IN  /\ full[i].subject = d.subject
                              /\ full[i].folder = folder
                              /\ full[i].is_read = d.is_read
                              /\ d.date = isoformat(full[i].date)
                    /\ \A i, j \in DOMAIN full :
                          i < j => full[i].date >= full[j].date
                    /\ \A L \in 0..(Len(emails) + 1), O \in 0..(Len(emails) + 1) :
                          LET got == fetch_emails(prov[a], folder, L, O)
                              want == IF O >= n THEN 0
                                      ELSE IF L < n - O THEN L ELSE n - O
                          IN  /\ Len(got) = want
                              /\ \A i \in DOMAIN got : got[i] = full[O + i]

\* a connected instance that stores, in one folder, an older record before a
\* newer one
C9_Witness ==
    \E a \in LocalAddrs :
        /\ prov[a].connected
        /\ \E i, j \in DOMAIN prov[a].emails :
              /\ i < j
              /\ prov[a].emails[i].folder = prov[a].emails[j].folder
              /\ fromisoformat(prov[a].emails[i].date)
                    < fromisoformat(prov[a].emails[j].date)

\* the queries of a search
Queries ==
    { <<>>, <<"H","I">>, <<"e","l","l">>, <<"<","b">>, <<"@","X">> }

\* q occurs in s, letter case ignored
Hit(q, s) ==
    \E k \in 0..(Len(s) - Len(q)) :
        \A m \in 1..Len(q) : LowerChar(s[k + m]) = LowerChar(q[m])

\* C10: search_emails(query, folder, limit) returns exactly the records
\* (of `folder` when given) whose subject, body_text or from_address contains
\* the query, letter case ignored, ordered by timestamp descending and cut to
\* `limit`; a record that holds the term in body_html only is not returned.
C10_SearchMatchesTextFieldsOnly ==
    \A a \in LocalAddrs :
        prov[a].connected =>
            \A q \in Queries :
                LET emails == prov[a].emails
                    hits == {j \in DOMAIN emails :
                                \/ Hit(q, emails[j].subject)
                                \/ Hit(q, emails[j].body_text)
                                \/ Hit(q, emails[j].from_address)}
                    html_only == {emails[j].id : j \in
                                    {k \in DOMAIN emails \ hits :
                                        Hit(q, emails[k].body_html)}}
                IN  \A hit \in {hits}, folder \in FolderNames \cup {""} :
                      \A full \in {search_emails(prov[a], q, folder, Len(emails))} :
                        /\ {full[i].id : i \in DOMAIN full} =
                              {emails[j].id : j \in
                                  {k \in hit : folder = "" \/ emails[k].folder = folder}}
                        /\ Len(full) =
                              Cardinality({k \in hit :
                                  folder = "" \/ emails[k].folder = folder})
                        /\ \A i, j \in DOMAIN full :
                              i < j => full[i].date >= full[j].date
                        /\ \A limit \in 0..(Len(emails) + 1) :
                              search_emails(prov[a], q, folder, limit) =
                                  SubSeq(full, 1,
                                      IF limit < Len(full) THEN limit ELSE Len(full))
                        /\ \A i \in DOMAIN full : full[i].id \notin html_only

\* a connected instance that holds a record with "<b" in its body_html only:
\* the search for "<b" returns nothing, the search for "NEWS"'s sender "b" and
\* for "HI" return records
C10_Witness ==
    \E a \in LocalAddrs :
        /\ prov[a].connected
        /\ \E j \in DOMAIN prov[a].emails :
              /\ Hit(<<"<","b">>, prov[a].emails[j].body_html)
              /\ prov[a].emails[j].body_text = <<>>
        /\ search_emails(prov[a], <<"<","b">>, "", 3) = <<>>
        /\ search_emails(prov[a], <<"H","I">>, "", 3) # <<>>

\* C11: write-through.  Right after a mark_read, delete_email or send_email
\* that returned true on a disk without failures, the mailbox document of the
\* instance's address exists and equals the instance's in-memory map, so a
\* LocalProvider constructed now for that address loads the same records.
C11_WriteThrough ==
    (last.op \in {"mark_read", "delete_email", "send_email"}
        /\ last.ret = "true" /\ last.saved) =>
        /\ disk[FileName(last.who)].exists
        /\ disk[FileName(last.who)].emails = prov[last.who].emails
        /\ FreshProvider(last.who).emails = prov[last.who].emails

\* a mark_read that returned true on a mailbox of two records or more
C11_Witness ==
    /\ last.op = "mark_read"
    /\ last.ret = "true"
    /\ Len(prov[last.who].emails) >= 2
    /\ Lookup(prov[last.who].emails, last.id).is_read

\* the elements of a list
Elems(s) == {s[i] : i \in DOMAIN s}

\* C12: routing is decided anew at every send_email.  Each recipient is routed
\* by whether its mailbox document exists when that send starts: if it does,
\* the recipient is a local recipient, is not relayed and (unless it is the
\* sender) its document gains one INBOX record; if it does not, the recipient
\* is not a local recipient, no document is created for it and a successful
\* relay carries it.
C12_RoutingDecidedAtEverySend ==
    [][\A a \in LocalAddrs :
        SentBy(a) =>
            \A i \in DOMAIN last'.to :
                LET r == last'.to[i]
                    f == FileName(r)
                IN  IF disk[f].exists
                    THEN /\ r \in Elems(last'.local)
                         /\ r \notin Elems(last'.relayed)
                         /\ r # a =>
                               /\ Len(disk'[f].emails) = Len(disk[f].emails) + 1
                               /\ disk'[f].emails[Len(disk'[f].emails)].folder = "INBOX"
                    ELSE /\ r \notin Elems(last'.local)
                         /\ r # a => ~disk'[f].exists
                         /\ last'.relay = "ok" => r \in Elems(last'.relayed)
      ]_vars

\* alice's instance has sent to bob@local twice: the first send drew one id
\* only (bob had no document, nothing was delivered), the second, after bob's
\* document appeared, was delivered
C12_Witness ==
    /\ last.op = "send_email"
    /\ last.who = Alice
    /\ last.local = <<Bob>>
    /\ last.id = 2
    /\ IdsOf(prov[Alice].emails) = {1, 2}
    /\ Lookup(prov[Alice].emails, 1).to_addresses = <<Bob>>
    /\ IdsOf(disk[FileName(Bob)].emails) = {3}

\* every worker of the screen has returned or was cancelled
WorkersFinished ==
    \A i \in DOMAIN screen.workers :
        screen.workers[i].state \in {"done", "cancelled"}

\* C13: under every interleaving of folder-switch requests and worker steps,
\* the message list, the preview and current_email are only written by the
\* load_messages worker started last, and once all workers have finished they
\* show the messages of the folder requested last.
C13_StaleLoadNeverOverwrites ==
    /\ [](screen # NoScreen /\ screen.mounted /\ WorkersFinished =>
            LET w == screen.workers[Len(screen.workers)]
                messages == fetch_emails(prov[ScreenAccount], w.folder, 50, 0)
            IN  /\ w.kind = "load_messages"
                /\ w.state = "done"
                /\ screen.writer = Len(screen.workers)
                /\ screen.current_folder = w.folder
                /\ screen.messages = messages
                /\ screen.preview = screen.current_email
                /\ screen.current_email =
                      IF messages = <<>> THEN <<>> ELSE <<messages[1]>>)
    /\ [][( /\ screen # NoScreen
             /\ \/ screen'.messages # screen.messages
                \/ screen'.preview # screen.preview
                \/ screen'.current_email # screen.current_email
                \/ screen'.writer # screen.writer )
            => /\ screen'.writer = Len(screen.workers)
               /\ screen.workers[screen'.writer].kind = "load_messages"
       ]_vars

\* three folder switches were requested while earlier loads were still in
\* their await; all workers have finished and the list shows a non-empty
\* folder
C13_Witness ==
    /\ screen # NoScreen
    /\ screen.mounted
    /\ Len(screen.workers) = MaxWorkers
    /\ WorkersFinished
    /\ Cardinality({i \in DOMAIN screen.workers :
                      screen.workers[i].state = "cancelled"
                      /\ screen.workers[i].kind = "load_messages"
                      /\ screen.workers[i].folder # ""}) >= 1
    /\ screen.messages # <<>>

\* C16: create_email_address rejects an empty local part and an address
\* that already exists by raising an error before any mutation: the list in
\* memory, addresses.json and every mailbox document are as before the call.
C16_RejectedCreateMutatesNothing ==
    [][(/\ calls' # calls
        /\ last'.op = "create_email_address"
        /\ \/ last'.who = MkAddress(<<>>, Local)
           \/ email_address_exists(last'.who))
       => /\ last'.ret = "ValueError"
          /\ addresses' = addresses
          /\ addresses_file' = addresses_file
          /\ disk' = disk]_vars

\* an address that exists was asked for again, in a directory that holds a
\* mailbox document, and the call was rejected
C16_Witness ==
    /\ last.op = "create_email_address"
    /\ last.ret = "ValueError"
    /\ last.who = Alice
    /\ email_address_exists(Alice)
    /\ addresses_file.exists
    /\ \E f \in Files : disk[f].exists /\ disk[f].emails # <<>>

\* C20: no send, mark_read, delete_email or disconnect of any LocalProvider
\* instance removes a record from a mailbox document on disk: the set of
\* record ids of every document only grows.
C20_DocumentsOnlyGrow ==
    [][(/\ calls' # calls
        /\ last'.op \in {"send_email", "mark_read", "delete_email", "disconnect"})
       => \A f \in Files :
             IdsOf(disk[f].emails) \subseteq IdsOf(disk'[f].emails)]_vars

\* the call on an id that the session ran last
IdCall(op) == imap.live /\ imap.call.op = op /\ imap.call.executed

\* C14: every get_email, mark_read and delete_email issued for an id that
\* fetch_emails(F) or search_emails(F) returned runs while F is the selected
\* folder of the session, and acts on the message the id denoted in F.
C14_IdOperationsRunInTheirFolder ==
    \A op \in {"get_email", "mark_read", "delete_email"} :
        IdCall(op) =>
            /\ imap.call.selected = imap.call.handle.folder
            /\ (imap.call.acted # 0 => imap.call.acted = imap.call.handle.uid)

\* the uids of the messages the mailboxes of the server hold
OnServer ==
    UNION {{imap.server[f][i].uid : i \in DOMAIN imap.server[f]} : f \in Mailboxes}

\* C15: delete_email on a connected session sets the \Deleted flag on the
\* message and only then requests the purge, returns true when both
\* succeed, and the deletion is irreversible: the server no longer holds the
\* message the id was obtained for, and no later fetch_emails or get_email
\* returns it.
C15_DeleteMarksThenPurgesForGood ==
    imap.live =>
        /\ imap.call.op = "delete_email" =>
              /\ imap.call.ret = "true" =>
                    imap.call.cmds = <<"STORE +FLAGS \\Deleted", "EXPUNGE">>
              /\ (Len(imap.call.cmds) = 2 /\ ~imap.call.raised) =>
                    imap.call.ret = "true"
        /\ \A uid \in imap.deleted :
              /\ uid \notin OnServer
              /\ uid \notin Elems(imap.call.uids)

\* what an operation returns when it fails
EmptyResult ==
    [fetch_emails |-> "empty", search_emails |-> "empty", get_email |-> "none",
     mark_read |-> "false", delete_email |-> "false"]

\* C17: when a fetch, get, search, mark-read or delete of a connected IMAP
\* session fails (a command raises), the operation returns its empty result
\* and the session is as before the call: still marked connected, the handle
\* kept, the selected folder unchanged.
C17_FailedOperationLeavesTheSession ==
    [][(/\ imap.live
        /\ calls' # calls
        /\ imap'.call.op \in DOMAIN EmptyResult
        /\ imap'.call.raised)
       => /\ imap'.call.ret = EmptyResult[imap'.call.op]
          /\ imap'.connected = imap.connected
          /\ imap'.handle = imap.handle
          /\ imap'.selected = imap.selected]_vars

\* the Message a normalizer returned
Normalized(backend) == norm.backend = backend /\ norm.email # <<>>

\* C18: for every raw message given to _parse_email, a Message with a
\* non-empty body_html has a non-empty body_text: where no text/plain part
\* supplied text, body_text is the rendering of body_html and is not empty.
C18_TextNeverEmptyWithHtml ==
    Normalized("imap") =>
        (norm.email[1].body_html # <<>> => norm.email[1].body_text # <<>>)

\* C19: every Message a backend's normalizer returns (Local, IMAP, Nylas)
\* has a non-empty folder name, "INBOX" where the backend supplied none.
C19_FolderNeverEmpty ==
    \A backend \in {"local", "imap", "nylas"} :
        Normalized(backend) =>
            /\ norm.email[1].folder # NoFolder
            /\ (backend = "nylas" /\ norm.raw.folder_id = NoFolder
                    => norm.email[1].folder = "INBOX")
            /\ (backend = "imap" => norm.email[1].folder = "INBOX")

\* C21: send_email returns true only if every address in `to` has received a
\* copy in its mailbox document or was submitted to the relay: no recipient
\* is dropped, an external one of an instance without relay settings included.
C21_NoRecipientDropped ==
    [][\A a \in LocalAddrs :
        (SentBy(a) /\ last'.ret = "true") =>
            \A i \in DOMAIN last'.to :
                LET r == last'.to[i]
                    f == FileName(r)
                IN  \/ r \in Elems(last'.relayed)
                    \/ \E j \in DOMAIN disk'[f].emails :
                          /\ disk'[f].emails[j].folder = "INBOX"
                          /\ disk'[f].emails[j].id \notin IdsOf(disk[f].emails)
      ]_vars
\* C22: send_email is all-or-nothing on failure: when it returns false, the
\* sender's mailbox in memory, the sender's document and every recipient's
\* document hold the records they held before.
C22_FailedSendStoresNothing ==
    [][\A a \in LocalAddrs :
        (/\ calls' # calls
         /\ last'.op = "send_email"
         /\ last'.who = a
         /\ last'.ret = "false")
        => /\ IdsOf(prov'[a].emails) = IdsOf(prov[a].emails)
           /\ \A f \in Files : IdsOf(disk'[f].emails) = IdsOf(disk[f].emails)
      ]_vars
\* C23: at every point of a run of create_email_address,
\* delete_email_address and provider operations, send_email routes an
\* address as local if and only if the address is registered with the
\* LocalEmailManager: a created address is local at once, and a deleted one
\* is never local again.
C23_LocalIffRegistered ==
    \A r \in LocalAddrs :
        is_local_address(disk, r) <=> email_address_exists(r)
\* C24: once the application was started with a configured account, every
\* worker of the inbox screen that called the provider found it connected
C24_ConnectedBeforeTheInboxLoads ==
    Running =>
        \A i \in DOMAIN screen.workers :
            screen.workers[i].state = "done" =>
                screen.workers[i].found = "connected"

\* C28: whatever add_account and remove_account calls were made, no two
\* stored accounts have the same id
C28_AccountIdsDistinct ==
    \A i, j \in DOMAIN config.accounts :
        i # j => config.accounts[i].id # config.accounts[j].id

\* the ids of the documents of address r that a step added
NewIds(r) == IdsOf(disk'[FileName(r)].emails) \ IdsOf(disk[FileName(r)].emails)

C26_MarkReadMarksRead ==
    (screen # NoScreen /\ screen.marked # <<>> /\ WorkersFinished) =>
        LET id == screen.marked[1]
            emails == prov[ScreenAccount].emails
        IN  /\ HasId(emails, id) => Lookup(emails, id).is_read
            /\ (screen.current_email # <<>> /\ screen.current_email[1].id = id)
                  => screen.current_email[1].is_read

\* C29: no load_folders worker is cancelled: the one started in on_mount
\* is left alone by the workers of other methods that start after it
C29_LoadFoldersIsNeverCancelled ==
    screen # NoScreen =>
        \A i \in DOMAIN screen.workers :
            screen.workers[i].kind = "load_folders" =>
                screen.workers[i].state # "cancelled"

\* no message of mailbox f carries the \Deleted flag
Unflagged(f) == \A i \in DOMAIN imap.server[f] : ~imap.server[f][i].deleted

\* C27: a get_email or delete_email issued for an id while the folder the
\* id was fetched from is selected, and no message of it is flagged, acts on
\* the message the id denoted when it was fetched, also after other ids of
\* that folder were deleted; and a delete_email that returns true removes
\* that message and no other.  (A mark_read changes no flag of any message.)
C27_IdsSurviveADelete ==
    [][\A op \in {"get_email", "delete_email"} :
        (/\ imap.live
         /\ calls' # calls
         /\ imap'.call.op = op
         /\ imap'.call.executed
         /\ imap'.call.selected = imap'.call.handle.folder
         /\ Unflagged(imap'.call.selected))
        => /\ imap'.call.acted = imap'.call.handle.uid
           /\ (op = "delete_email" /\ imap'.call.ret = "true") =>
                 OnServer' = OnServer \ {imap'.call.handle.uid}
      ]_vars

\* the records of a dict that are in Trash
Trashed(emails) == {emails[i].id : i \in InFolder(emails, "Trash")}

\* C30: from an empty mailbox, every record of an instance and of a mailbox
\* document is in INBOX, Sent or Trash, and a record in Trash stays in Trash
\* in every step
C30_TrashIsAbsorbing ==
    [][/\ \A a \in LocalAddrs : \A i \in DOMAIN prov'[a].emails :
            prov'[a].emails[i].folder \in {"INBOX", "Sent", "Trash"}
       /\ \A f \in Files : \A i \in DOMAIN disk'[f].emails :
            disk'[f].emails[i].folder \in {"INBOX", "Sent", "Trash"}
       /\ \A a \in LocalAddrs :
            Trashed(prov[a].emails) \subseteq Trashed(prov'[a].emails)
       /\ \A f \in Files :
            Trashed(disk[f].emails) \subseteq Trashed(disk'[f].emails)
      ]_vars

====
